---- MODULE Spec2Model ----
(***************************************************************************)
(* A model of vlp2ss (src/golang/main.go): the VLP -> ScreenSteps          *)
(* converter and uploader.                                                 *)
(*                                                                         *)
(* HTML is modelled as a sequence of tokens.  A token is a record          *)
(*   k   : the kind ("txt", "ws", "nl", a tag kind such as "p", "/p", ...) *)
(*   enc : how many times the token is entity-encoded in the string        *)
(*         (0: it is literally there; 1: "&lt;p&gt;"; 2: "&amp;lt;p..."),  *)
(*         a token with enc > 0 is plain non-blank text to every regexp    *)
(*   cls : the class list of a <p class=".."> or <span class="..">         *)
(*   a,b,o : attributes of the tag (see each kind)                         *)
(*   n   : a number naming the text run or the image file                  *)
(***************************************************************************)
EXTENDS Integers, Sequences, FiniteSets, TLC

VARIABLES
    \* ---- Converter.flattenStructure
    manual,        \* the parsed source tree: manual.ContentNodes.Nodes
    fpc,           \* where flattenStructure stands
    fidx,          \* index of the top-level node of the second loop
    fart,          \* index of the article node inside the current chapter node
    chapter,       \* the SSChapter being built
    position,      \* the local variable position
    chapterIdx,    \* the local variable chapterIdx
    chapters,      \* the result: []SSChapter
    logger         \* the Logger's progress counters

flattenVars == <<manual, fpc, fidx, fart, chapter, position, chapterIdx, chapters, logger>>

VARIABLES
    \* ---- UploadToScreenSteps
    ssManual,        \* the manual loaded from the TOC file (step contents: see stepContent)
    upc,             \* where UploadToScreenSteps stands
    uErr,            \* its return value: "none" while it runs, then "nil" or "err"
    uCh, uArt, uStep,\* indexes of the chapter, article and step loops
    chapterMap,      \* chapterMap: source chapter id -> target chapter id
    articleID,       \* the id CreateArticle returned for the current article
    imagesDirFiles,  \* the files present in the current article's images directory
    stepContent,     \* step.Content of the current step
    indexes,         \* blockRegex.FindAllStringSubmatchIndex(step.Content, -1)
    matchNo,         \* the loop index over indexes
    lastIndex,       \* the local variable lastIndex
    contentBlocks,   \* the local variable contentBlocks
    stepBlock,       \* the place in contentBlocks of the map stepBlock
    sortOrder,       \* the local variable sortOrder
    uuidCount,       \* the number of UUIDs generated so far
    skippedImages,   \* the local variable skippedImages
    uploadedImagesCount,
    calls,           \* the API calls made so far, in order, with their outcome
    submitted,       \* the content_blocks of the last UpdateArticleContents call
    missingRefs      \* the references to missing image files met so far

uploadVars == <<ssManual, upc, uErr, uCh, uArt, uStep, chapterMap, articleID, imagesDirFiles,
                stepContent, indexes, matchNo, lastIndex, contentBlocks, stepBlock, sortOrder,
                uuidCount, skippedImages, uploadedImagesCount, calls, submitted, missingRefs>>

VARIABLES
    \* ---- one call of APIClient.request or APIClient.UploadImage
    rpc,          \* "idle", "call", "loop", "returned"
    rKind,        \* "request" or "UploadImage"
    rMethod,      \* the method argument ("POST" for UploadImage)
    rEndpoint,    \* the endpoint argument (0: the Files endpoint of UploadImage)
    rData,        \* the body argument, 0 for nil; for UploadImage the file's content
    rUrlOK,       \* whether http.NewRequest accepts the method and URL
    jsonData,     \* json.Marshal(body), <<>> for nil
    reqBody,      \* the io.Reader handed to http.NewRequest
    fileOffset,   \* read offset of the opened image file: 0 start, 1 end
    boundaries,   \* multipart writers created so far (each draws a new boundary)
    rSent,        \* what client.Do was given, attempt after attempt
    rStatuses,    \* the status codes received, in order
    rSlept,       \* the time.Sleep calls, in milliseconds
    rHints,       \* the retry_in of each 429 response received, 0 when it has none
    rResult,      \* "none", "ok" (a nil error) or "err"
    rErr          \* where a returned error came from

requestVars == <<rpc, rKind, rMethod, rEndpoint, rData, rUrlOK, jsonData, reqBody, fileOffset,
                 boundaries, rSent, rStatuses, rSlept, rHints, rResult, rErr>>

VARIABLES
    \* ---- main: the command's PersistentPreRun and Run
    mpc,          \* "idle", "start", "run", "stat", "convert", "upload", "exited"
    showExamples, \* --examples (the flags are those of a command line cobra accepted)
    inputPath,    \* --input: "" when not given
    upload,       \* --upload
    flagCreds,    \* --account, --user, --token, --site: "" when not given
    envCreds,     \* SS_ACCOUNT, SS_USER, SS_TOKEN, SS_SITE: "" when unset
    creds,        \* account, user, token, siteID as Run sees them
    outputDirOK,  \* whether os.MkdirAll(outputDir) succeeded: "unknown", "yes", "no"
    outputBefore, \* outputDir when the process started: "absent", or "prior" (a directory
                  \* with contents of an earlier run)
    outputNow,    \* outputDir now: "absent", "prior", "part" (some of the prior contents),
                  \* "empty", "written"
    inputStat,    \* what os.Stat(inputPath) found: "unknown", "absent", "dir", "zip", "other"
    convResult,   \* how the conversion ended: "unknown", "extract", "parseXML", "write", "ok"
    apiRequests,  \* API requests sent by this run
    exitCode      \* -1 while running, then the exit status of the process

mainVars == <<mpc, showExamples, inputPath, upload, flagCreds, envCreds, creds, outputDirOK,
              outputBefore, outputNow,
              inputStat, convResult, apiRequests, exitCode>>

VARIABLES
    \* ---- Converter.cleanHTML, one call
    cpc,          \* where the call stands: "idle", "raw", "decoded", "embedded", "styled",
                  \* "spanned", "done"
    cOrder,       \* the order in which range walked pClassToStyleMap in this call
    cOut          \* the value of the string after each stage

cleanVars == <<cpc, cOrder, cOut>>

VARIABLES
    \* ---- the entity decoding of cleanHTML, on the characters of a text
    dHist         \* the text, then the text after each html.UnescapeString so far

decodeVars == <<dHist>>

VARIABLES
    \* ---- Converter.writeOutput and the end of ConvertZip / ConvertDirectory
    wpc,          \* "idle", "begin", "articles", "returned", "done", "error"
    wManual,      \* manual.Manual.Chapters
    wSource,      \* the file names found under sourceDir/images
    wCh,          \* index of the chapter of the outer loop
    wArt,         \* index of the article of the inner loop
    articleCount, \* the local variable articleCount
    imageCount,   \* the local variable imageCount
    wLog          \* the lines the Logger has written (Info and Substep lines left out
                  \* except "Copied")

writeVars == <<wpc, wManual, wSource, wCh, wArt, articleCount, imageCount, wLog>>

otherVars == <<cleanVars, decodeVars, writeVars>>

vars == <<flattenVars, uploadVars, requestVars, mainVars, otherVars>>

\* ------------------------------------------------------------------ bounds
MaxTop == 2          \* top-level nodes of a source manual
MaxArticles == 2     \* article nodes of a source manual (all chapters together)
MaxSteps == 2        \* step nodes of one article node
MaxOrder == 1        \* source orderIndex values are 0..MaxOrder
MaxTotalSteps == 3   \* steps in a manual that is uploaded
Max429 == 2          \* 429 responses to one call
MaxParas == 3        \* paragraphs of a body given to cleanHTML
MaxClasses == 2      \* classes in the class attribute of a span
MaxText == 5         \* pieces of a text given to html.UnescapeString

\* ------------------------------------------------------------------ helpers
Min(S) == CHOOSE x \in S : \A y \in S : x <= y
Max(S) == CHOOSE x \in S : \A y \in S : x >= y
Range(s) == {s[i] : i \in DOMAIN s}

RECURSIVE SumSeq(_)
SumSeq(s) == IF s = <<>> THEN 0 ELSE Head(s) + SumSeq(Tail(s))

\* ------------------------------------------------------------------ tokens
Tok(kind) == [k |-> kind, enc |-> 0, cls |-> <<>>, a |-> "", b |-> "", o |-> "", n |-> 0]
Txt(num) == [Tok("txt") EXCEPT !.n = num]
Cls(kind, classes) == [Tok(kind) EXCEPT !.cls = classes]
Img(prefix, file) == [Tok("img") EXCEPT !.b = prefix, !.n = file]
Encoded(t, times) == [t EXCEPT !.enc = times]

Live(t, kind) == t.k = kind /\ t.enc = 0
IsSpace(t) == t.enc = 0 /\ t.k \in {"ws", "nl"}
IsText(t) == t.enc > 0 \/ t.k = "txt"
IsTag(t) == t.enc = 0 /\ t.k \notin {"txt", "ws", "nl"}

\* regexp <[^>]+> removed, then strings.TrimSpace(..) != ""
NonBlank(s) == \E i \in DOMAIN s : IsText(s[i])

FirstLive(s, from, kind) ==
    LET C == {i \in from..Len(s) : Live(s[i], kind)}
    IN  IF C = {} THEN 0 ELSE Min(C)

HasNl(s, i, j) == \E m \in i..j : Live(s[m], "nl")

SkipSpace(s, i) ==
    LET C == {m \in i..Len(s) : ~IsSpace(s[m])}
    IN  IF C = {} THEN Len(s) + 1 ELSE Min(C)

\* ------------------------------------------------------------------ cleanHTML
\* html.UnescapeString: one level of entity encoding is removed.
UnescapeString(s) ==
    [i \in DOMAIN s |-> IF s[i].enc > 0 THEN [s[i] EXCEPT !.enc = @ - 1] ELSE s[i]]

\* The replacement built by convertYouTubeEmbeds.
screenStepsEmbed(videoID) ==
    << Tok("embed"), [Tok("iframe") EXCEPT !.a = videoID], Tok("/iframe"), Tok("/div") >>

\* A yt token is <div ... class="mediatag-thumb youtube-thumb" ...>:
\* a = data-media-id, b = the id inside data-thumb-url (.../vi/<id>/...),
\* n = 0 when the host of data-thumb-url ends in youtube.com, 1 for another
\* host, o = where the class attribute stands among the data attributes.
\* Both patterns want the class attribute before the data attribute they
\* capture, and no newline up to the first </div> (no (?s) flag).
YtOrders == {"class-first", "data-first", "id-class-thumb", "thumb-class-id"}

\* youtubePattern: class="..." [^>]* data-media-id="([^"]+)"
mediaID(t) == IF t.o \in {"class-first", "thumb-class-id"} THEN t.a ELSE ""

\* thumbUrlPattern: class="..." [^>]* data-thumb-url="[^"]*youtube\.com/vi/([^/]+)/
thumbID(t) == IF t.o \in {"class-first", "id-class-thumb"} /\ t.n = 0 THEN t.b ELSE ""

ytMatchEnd(s, i, id) ==
    IF ~(Live(s[i], "yt") /\ id # "") THEN 0
    ELSE LET j == FirstLive(s, i + 1, "/div")
         IN  IF j = 0 \/ HasNl(s, i + 1, j - 1) THEN 0 ELSE j

RECURSIVE ytReplace(_, _, _)
ytReplace(s, i, thumb) ==
    IF i > Len(s) THEN <<>>
    ELSE LET id == IF thumb THEN thumbID(s[i]) ELSE mediaID(s[i])
             j == ytMatchEnd(s, i, id)
         IN  IF j # 0 THEN screenStepsEmbed(id) \o ytReplace(s, j + 1, thumb)
             ELSE <<s[i]>> \o ytReplace(s, i + 1, thumb)

convertYouTubeEmbeds(s) == ytReplace(ytReplace(s, 1, FALSE), 1, TRUE)

\* pClassToStyleMap
pClasses == {"c10", "c44", "c48"}
pClassToStyleMap(c) == IF c = "c48" THEN "info" ELSE "introduction"

\* One <p class="..c.."> ... </p> unit starting at i: the index of its </p>, or 0.
pUnitEnd(s, i, c) ==
    IF i > Len(s) THEN 0
    ELSE IF ~(Live(s[i], "p") /\ c \in Range(s[i].cls)) THEN 0
    ELSE FirstLive(s, i + 1, "/p")

\* The units of the group that starts at i: <<first, last>> index pairs.
RECURSIVE pUnits(_, _, _)
pUnits(s, i, c) ==
    LET j == pUnitEnd(s, i, c)
    IN  IF j = 0 THEN <<>> ELSE << <<i, j>> >> \o pUnits(s, SkipSpace(s, j + 1), c)

RECURSIVE pTextUnits(_, _)
pTextUnits(s, units) ==
    IF units = <<>> THEN <<>>
    ELSE LET u == Head(units)
         IN  (IF NonBlank(SubSeq(s, u[1] + 1, u[2] - 1)) THEN SubSeq(s, u[1], u[2]) ELSE <<>>)
             \o pTextUnits(s, Tail(units))

RECURSIVE pImageUnits(_, _)
pImageUnits(s, units) ==
    IF units = <<>> THEN <<>>
    ELSE LET u == Head(units)
             tag == SubSeq(s, u[1], u[2])
         IN  (IF ~NonBlank(SubSeq(s, u[1] + 1, u[2] - 1)) /\ (\E m \in DOMAIN tag : Live(tag[m], "img"))
              THEN tag ELSE <<>>)
             \o pImageUnits(s, Tail(units))

\* The replacement function of groupRegex.ReplaceAllStringFunc.
pGroupResult(s, units, style) ==
    LET content == pTextUnits(s, units)
        images == pImageUnits(s, units)
    IN  (IF content # <<>>
         THEN << [Tok("styled") EXCEPT !.a = style] >> \o content \o << Tok("/div") >>
         ELSE <<>>) \o images

RECURSIVE pGroupReplace(_, _, _)
pGroupReplace(s, i, c) ==
    IF i > Len(s) THEN <<>>
    ELSE LET units == pUnits(s, i, c)
         IN  IF units = <<>> THEN <<s[i]>> \o pGroupReplace(s, i + 1, c)
             ELSE pGroupResult(s, units, pClassToStyleMap(c))
                  \o pGroupReplace(s, SkipSpace(s, units[Len(units)][2] + 1), c)

\* order: the order in which Go's range walks pClassToStyleMap this time.
RECURSIVE convertVLPParagraphStyles(_, _)
convertVLPParagraphStyles(s, order) ==
    IF order = <<>> THEN s
    ELSE convertVLPParagraphStyles(pGroupReplace(s, 1, Head(order)), Tail(order))

MapOrders == {o \in [1..3 -> pClasses] : \A i, j \in 1..3 : i # j => o[i] # o[j]}

\* classToTagMap
classToTagMap(c) ==
    CASE c \in {"c0", "c3", "c5", "c7"} -> "strong"
      [] c = "c6" -> "code"
      [] OTHER -> ""

replacementTag(classes) ==
    IF "c5" \in Range(classes) THEN "strong"
    ELSE LET C == {i \in DOMAIN classes : classToTagMap(classes[i]) # ""}
         IN  IF C = {} THEN "" ELSE classToTagMap(classes[Min(C)])

closeTag(tag) == IF tag = "strong" THEN "/strong" ELSE "/code"

\* spanRegex: <span class=".."> up to the first </span>, no newline between.
spanMatchEnd(s, i) ==
    IF ~(Live(s[i], "span") /\ s[i].cls # <<>>) THEN 0
    ELSE LET j == FirstLive(s, i + 1, "/span")
         IN  IF j = 0 \/ HasNl(s, i + 1, j - 1) THEN 0 ELSE j

RECURSIVE spanReplace(_, _)
spanReplace(s, i) ==
    IF i > Len(s) THEN <<>>
    ELSE LET j == spanMatchEnd(s, i)
             tag == replacementTag(s[i].cls)
             content == SubSeq(s, i + 1, j - 1)
         IN  IF j = 0 THEN <<s[i]>> \o spanReplace(s, i + 1)
             ELSE (IF tag # "" THEN <<Tok(tag)>> \o content \o <<Tok(closeTag(tag))>> ELSE content)
                  \o spanReplace(s, j + 1)

\* emptySpanPattern: <span[^>]*>\s*</span>
RECURSIVE emptySpanRemove(_, _)
emptySpanRemove(s, i) ==
    IF i > Len(s) THEN <<>>
    ELSE LET j == SkipSpace(s, i + 1)
         IN  IF Live(s[i], "span") /\ j <= Len(s) /\ Live(s[j], "/span")
             THEN emptySpanRemove(s, j + 1)
             ELSE <<s[i]>> \o emptySpanRemove(s, i + 1)

\* olStartPattern: the start attribute (a) of an <ol> is removed.
olStartRemove(s) ==
    [i \in DOMAIN s |-> IF Live(s[i], "ol") THEN [s[i] EXCEPT !.a = ""] ELSE s[i]]

convertVLPFormatting(s, order) ==
    IF s = <<>> THEN <<>>
    ELSE olStartRemove(emptySpanRemove(spanReplace(
            convertVLPParagraphStyles(convertYouTubeEmbeds(s), order), 1), 1))

\* src="./x" becomes src="x": b is the prefix of an image's src.
fixImagePaths(s) ==
    [i \in DOMAIN s |-> IF Live(s[i], "img") /\ s[i].b = "./" THEN [s[i] EXCEPT !.b = ""] ELSE s[i]]

TrimSpace(s) ==
    LET C == {i \in DOMAIN s : ~IsSpace(s[i])}
    IN  IF C = {} THEN <<>> ELSE SubSeq(s, Min(C), Max(C))

cleanHTML(s, order) ==
    IF s = <<>> THEN <<>>
    ELSE TrimSpace(fixImagePaths(convertVLPFormatting(UnescapeString(UnescapeString(s)), order)))

\* ------------------------------------------------------------------ source tree
Orders == 0..MaxOrder

\* The body a node with id n carries when it has a LocaleContent: a styled
\* paragraph with a bold span, entity-encoded once or twice, and an image.
RawBody(n) ==
    << Encoded(Cls("p", <<"c48">>), 1), Encoded(Cls("span", <<"c5">>), 1), Txt(n),
       Encoded(Tok("/span"), 1), Encoded(Txt(0), 2), Encoded(Tok("/p"), 1),
       Tok("ws"), Img("./", n) >>

\* A ContentNode: loc says whether it has a Localizations element; the body and
\* the image list of a node that has one are RawBody(id) and NodeImages(id).
Node(id, ord, nil, kids, loc) ==
    [id |-> id, title |-> 1000 + id, order |-> ord, nilKids |-> nil, kids |-> kids, loc |-> loc]

NodeImages(id) == << [filename |-> id] >>

StepLists(t, a) ==
    UNION { { [s \in 1..k |-> Node(100 * t + 10 * a + s, f[s], TRUE, <<>>, TRUE)] :
              f \in [1..k -> Orders] } : k \in 0..MaxSteps }

ArticleNodes(t, a) ==
    { Node(10 * t + a, ord, FALSE, kids, loc) :
        ord \in Orders, kids \in StepLists(t, a), loc \in BOOLEAN }
    \cup { Node(10 * t + a, ord, TRUE, <<>>, loc) : ord \in Orders, loc \in BOOLEAN }

RECURSIVE ArticleLists(_, _)
ArticleLists(t, k) ==
    IF k = 0 THEN {<<>>}
    ELSE { Append(p, x) : p \in ArticleLists(t, k - 1), x \in ArticleNodes(t, k) }

TopNodes(t, k) ==
    IF k = 0 THEN { Node(t, t - 1, TRUE, <<>>, TRUE), Node(t, t - 1, FALSE, <<>>, TRUE) }
    ELSE { Node(t, t - 1, FALSE, kids, TRUE) : kids \in ArticleLists(t, k) }

\* The lists of n top-level nodes with total article nodes in all.
RECURSIVE TopLists(_, _)
TopLists(n, total) ==
    IF n = 0 THEN (IF total = 0 THEN {<<>>} ELSE {})
    ELSE UNION { { Append(p, x) : p \in TopLists(n - 1, total - k), x \in TopNodes(n, k) } :
                 k \in 0..total }

Manuals(tops, arts) == UNION { TopLists(n, total) : n \in 0..tops, total \in 0..arts }

\* ------------------------------------------------------------------ flattenStructure
getNodeContent(node) == IF node.loc THEN RawBody(node.id) ELSE <<>>
getNodeImages(node) == IF node.loc THEN NodeImages(node.id) ELSE <<>>

\* The test without idx == 0: every node without children is skipped.
isTitleNode_AnyChildless(idx, node) == node.nilKids \/ Len(node.kids) = 0

\* The test of both loops: the first node is skipped when it has no children.
isTitleNode(idx, node) == idx = 1 /\ (node.nilKids \/ Len(node.kids) = 0)

\* The images of the article node itself are left out of the total.
articleImageCount_StepsOnly(articleNode) ==
    SumSeq([s \in DOMAIN articleNode.kids |-> Len(getNodeImages(articleNode.kids[s]))])

articleImageCount(articleNode) ==
    Len(getNodeImages(articleNode))
    + SumSeq([s \in DOMAIN articleNode.kids |-> Len(getNodeImages(articleNode.kids[s]))])

chapterImageCount(chapterNode) ==
    SumSeq([a \in DOMAIN chapterNode.kids |-> articleImageCount(chapterNode.kids[a])])

\* The first pass: totals for progress tracking.
countTotals(nodes) ==
    LET kept == {i \in DOMAIN nodes : ~isTitleNode(i, nodes[i])}
    IN  [chapters |-> Cardinality(kept),
         articles |-> SumSeq([i \in DOMAIN nodes |-> IF i \in kept THEN Len(nodes[i].kids) ELSE 0]),
         images |-> SumSeq([i \in DOMAIN nodes |-> IF i \in kept THEN chapterImageCount(nodes[i]) ELSE 0])]

\* Line 1054: Order: stepNode.OrderIndex
stepOrder_PlusOne(stepNode) == stepNode.order + 1
stepOrder(stepNode) == stepNode.order

stepOfStepNode(stepNode, order) ==
    [id |-> stepNode.id, title |-> stepNode.title, order |-> stepOrder(stepNode),
     content |-> cleanHTML(getNodeContent(stepNode), order),
     images |-> getNodeImages(stepNode)]

stepOfArticleNode(articleNode, order) ==
    [id |-> articleNode.id, title |-> articleNode.title, order |-> 0,
     content |-> cleanHTML(getNodeContent(articleNode), order),
     images |-> getNodeImages(articleNode)]

\* stepsOf with the test reduced to Children != nil: an empty list gives no step.
stepsOf_NilOnly(articleNode, order) ==
    IF ~articleNode.nilKids
    THEN [s \in DOMAIN articleNode.kids |-> stepOfStepNode(articleNode.kids[s], order)]
    ELSE << stepOfArticleNode(articleNode, order) >>

\* The steps of one article node (level 3, or the article's own content).
stepsOf(articleNode, order) ==
    IF ~articleNode.nilKids /\ Len(articleNode.kids) > 0
    THEN [s \in DOMAIN articleNode.kids |-> stepOfStepNode(articleNode.kids[s], order)]
    ELSE << stepOfArticleNode(articleNode, order) >>

\* Line 1043: Position: position
articlePosition_SourceOrder(pos, articleNode) == articleNode.order
articlePosition(pos, articleNode) == pos

articleOf(articleNode, pos, order) ==
    [id |-> articleNode.id, title |-> articleNode.title, vlp_order |-> articleNode.order,
     position |-> articlePosition(pos, articleNode), steps |-> stepsOf(articleNode, order)]

processedImagesOf(articleNode) ==
    IF ~articleNode.nilKids /\ Len(articleNode.kids) > 0
    THEN SumSeq([s \in DOMAIN articleNode.kids |-> Len(getNodeImages(articleNode.kids[s]))])
    ELSE Len(getNodeImages(articleNode))

NoChapter == [id |-> 0, title |-> 0, order |-> 0, description |-> <<>>, articles |-> <<>>]

LoggerInit ==
    [totalManuals |-> 0, totalChapters |-> 0, totalArticles |-> 0, totalImages |-> 0,
     currentManual |-> 0, currentChapter |-> 0, currentArticle |-> 0,
     processedArticles |-> 0, processedImages |-> 0]

FlattenIdle ==
    /\ fpc = "idle" /\ fidx = 0 /\ fart = 0 /\ chapter = NoChapter /\ position = 0
    /\ chapterIdx = 0 /\ chapters = <<>> /\ logger = LoggerInit

InitFlatten ==
    /\ manual \in Manuals(MaxTop, MaxArticles)
    /\ fpc = "count" /\ fidx = 1 /\ fart = 1 /\ chapter = NoChapter /\ position = 0
    /\ chapterIdx = 0 /\ chapters = <<>> /\ logger = LoggerInit

\* Lines 974-1010: the counting pass, SetTotals and the reset of the counters.
FlattenCount ==
    /\ fpc = "count"
    /\ LET t == countTotals(manual)
       IN  logger' = [logger EXCEPT !.totalManuals = 1, !.totalChapters = t.chapters,
                                    !.totalArticles = t.articles, !.totalImages = t.images,
                                    !.currentManual = 1, !.currentChapter = 0,
                                    !.currentArticle = 0, !.processedArticles = 0,
                                    !.processedImages = 0]
    /\ fpc' = "chapter" /\ fidx' = 1 /\ chapterIdx' = 0 /\ chapters' = <<>>
    /\ UNCHANGED <<manual, fart, chapter, position>>

\* Lines 1012-1016: the first node is skipped when it is the manual title.
FlattenSkip ==
    /\ fpc = "chapter" /\ fidx <= Len(manual)
    /\ isTitleNode(fidx, manual[fidx])
    /\ fidx' = fidx + 1
    /\ UNCHANGED <<manual, fpc, fart, chapter, position, chapterIdx, chapters, logger>>

\* Lines 1018-1034: a chapter is opened.
FlattenChapterBegin ==
    /\ fpc = "chapter" /\ fidx <= Len(manual)
    /\ ~isTitleNode(fidx, manual[fidx])
    /\ \E order \in MapOrders :
         chapter' = [id |-> manual[fidx].id, title |-> manual[fidx].title,
                     order |-> manual[fidx].order,
                     description |-> cleanHTML(getNodeContent(manual[fidx]), order),
                     articles |-> <<>>]
    /\ chapterIdx' = chapterIdx + 1
    /\ logger' = [logger EXCEPT !.currentChapter = chapterIdx + 1]
    /\ position' = 1 /\ fart' = 1 /\ fpc' = "article"
    /\ UNCHANGED <<manual, fidx, chapters>>

\* Lines 1035-1078: one article node.
FlattenArticle ==
    /\ fpc = "article" /\ ~manual[fidx].nilKids /\ fart <= Len(manual[fidx].kids)
    /\ LET articleNode == manual[fidx].kids[fart]
       IN  /\ \E order \in MapOrders :
                chapter' = [chapter EXCEPT !.articles = Append(@, articleOf(articleNode, position, order))]
           /\ logger' = [logger EXCEPT !.currentArticle = @ + 1,
                                       !.processedArticles = @ + 1,
                                       !.processedImages = @ + processedImagesOf(articleNode)]
    /\ position' = position + 1 /\ fart' = fart + 1
    /\ UNCHANGED <<manual, fpc, fidx, chapterIdx, chapters>>

\* Line 1081: the chapter is appended.
FlattenChapterEnd ==
    /\ fpc = "article" /\ (manual[fidx].nilKids \/ fart > Len(manual[fidx].kids))
    /\ chapters' = Append(chapters, chapter)
    /\ fidx' = fidx + 1 /\ fpc' = "chapter"
    /\ UNCHANGED <<manual, fart, chapter, position, chapterIdx, logger>>

\* Line 1084: return chapters.
FlattenReturn ==
    /\ fpc = "chapter" /\ fidx > Len(manual)
    /\ fpc' = "done"
    /\ UNCHANGED <<manual, fidx, fart, chapter, position, chapterIdx, chapters, logger>>

\* ------------------------------------------------------------------ the loaded manual
\* What json.Unmarshal gives UploadToScreenSteps.  The content of a step is
\* read once, when the step is reached: it is drawn then (UploadStepBegin).
UStep(c, a, s) ==
    [id |-> 100 * c + 10 * a + s, title |-> 1000 + 100 * c + 10 * a + s,
     images |-> IF s = 1 THEN NodeImages(100 * c + 10 * a + s) ELSE <<>>]

UArticle(c, a, n) ==
    [id |-> 10 * c + a, title |-> 1000 + 10 * c + a, position |-> a,
     steps |-> [s \in 1..n |-> UStep(c, a, s)]]

RECURSIVE UArticleLists(_, _)
UArticleLists(c, k) ==
    IF k = 0 THEN {<<>>}
    ELSE { Append(p, UArticle(c, k, n)) : p \in UArticleLists(c, k - 1), n \in 1..MaxSteps }

\* Chapter ids come from the source and need not differ.
UChapters(c, k) ==
    { [id |-> i, title |-> 1000 + c, order |-> c - 1, articles |-> al] :
        i \in {1, c}, al \in UArticleLists(c, k) }

RECURSIVE UChapterLists(_, _)
UChapterLists(n, total) ==
    IF n = 0 THEN (IF total = 0 THEN {<<>>} ELSE {})
    ELSE UNION { { Append(p, x) : p \in UChapterLists(n - 1, total - k), x \in UChapters(n, k) } :
                 k \in 0..total }

stepCount(m) ==
    SumSeq([c \in DOMAIN m |-> SumSeq([a \in DOMAIN m[c].articles |-> Len(m[c].articles[a].steps)])])

UManuals(tops, arts, steps) ==
    { m \in UNION { UChapterLists(n, total) : n \in 0..tops, total \in 0..arts } :
        stepCount(m) <= steps }

\* The image files a step can name: file 1 may be in the article's images
\* directory, file 2 never is.
PresentFiles == {1}
T1 == Txt(1)
I1 == Img("", 1)
I2 == Img("", 2)
EmbedOpen == Tok("embed")
StyledOpen == [Tok("styled") EXCEPT !.a = "info"]
DivClose == Tok("/div")

StepContents ==
    { <<>>,
      << T1, I1, Txt(2) >>,
      << I2, Tok("ws"), I2 >>,
      screenStepsEmbed("v"),
      << StyledOpen, T1, I2, DivClose, Txt(2) >>,
      << StyledOpen, T1, Tok("nl"), Txt(2), DivClose >>,
      << EmbedOpen, T1, I2 >> }

\* ------------------------------------------------------------------ the segmenter
\* blockRegex at token i: the index of the last token of the match, or 0.
blockMatchEnd(s, i) ==
    IF Live(s[i], "img") THEN i
    ELSE IF Live(s[i], "embed") \/ Live(s[i], "styled") THEN FirstLive(s, i + 1, "/div")
    ELSE 0

\* blockRegex.FindAllStringSubmatchIndex: <<first, last>> token index pairs.
RECURSIVE findAllIndex(_, _)
findAllIndex(s, i) ==
    IF i > Len(s) THEN <<>>
    ELSE LET j == blockMatchEnd(s, i)
         IN  IF j = 0 THEN findAllIndex(s, i + 1)
             ELSE << <<i, j>> >> \o findAllIndex(s, j + 1)

\* styledBlockRegex.FindStringSubmatch(blockHTML): no (?s), so the inner HTML
\* may hold no newline.  The result is <<style, innerBody>>, or <<>>.
styleMatches(blockHTML) ==
    LET n == Len(blockHTML)
        C == { p \in 1..n : /\ Live(blockHTML[p], "styled") /\ blockHTML[p].a # ""
                            /\ FirstLive(blockHTML, p + 1, "/div") # 0
                            /\ ~HasNl(blockHTML, p + 1, FirstLive(blockHTML, p + 1, "/div") - 1) }
    IN  IF C = {} THEN <<>>
        ELSE << blockHTML[Min(C)].a,
                SubSeq(blockHTML, Min(C) + 1, FirstLive(blockHTML, Min(C) + 1, "/div") - 1) >>

newBlock(uuid, type, depth, so, body, style, file) ==
    [uuid |-> uuid, type |-> type, depth |-> depth, sort_order |-> so,
     content_block_ids |-> <<>>, body |-> body, style |-> style, file |-> file]

\* The id is appended to the wrong map: the first StepContent block's.
registerChild_FirstStep(blocks, at, uuid) ==
    [blocks EXCEPT ![1].content_block_ids = Append(@, uuid)]

\* stepBlock["content_block_ids"] = append(..., uuid): stepBlock is the map
\* that sits in contentBlocks at index at.
registerChild(blocks, at, uuid) ==
    [blocks EXCEPT ![at].content_block_ids = Append(@, uuid)]

\* The block is appended, its id is not added to the step block's list.
addBlock_Unregistered(st, at, type, body, style, file) ==
    LET u == st.uuid + 1
    IN  [blocks |-> Append(st.blocks, newBlock(u, type, 1, st.so, body, style, file)),
         so |-> st.so + 1, uuid |-> u]

\* st = [blocks, so, uuid]: contentBlocks, sortOrder and the UUIDs used.
addBlock(st, at, type, body, style, file) ==
    LET u == st.uuid + 1
    IN  [blocks |-> Append(registerChild(st.blocks, at, u),
                           newBlock(u, type, 1, st.so, body, style, file)),
         so |-> st.so + 1, uuid |-> u]

\* Lines 1589-1602: the StepContent block.
addStepBlock(st) ==
    LET u == st.uuid + 1
    IN  [blocks |-> Append(st.blocks, newBlock(u, "StepContent", 0, st.so, <<>>, "", 0)),
         so |-> st.so + 1, uuid |-> u]

\* The test of the stripped text is left out: every gap gives a block.
addTextBlock_Always(st, at, text) == addBlock(st, at, "TextContent", text, "", 0)

\* Lines 1616-1632 and 1708-1719: a text gap gives a block when it is not blank.
addTextBlock(st, at, text) ==
    IF NonBlank(text) THEN addBlock(st, at, "TextContent", text, "", 0) ELSE st

\* The image block is appended without sortOrder++.
addImageBlock_NoIncrement(st, at, file) ==
    [addBlock(st, at, "ImageContentBlock", <<>>, "", file) EXCEPT !.so = st.so]

\* Lines 1658-1668
addImageBlock(st, at, file) == addBlock(st, at, "ImageContentBlock", <<>>, "", file)

\* Lines 1680-1687
addEmbedBlock(st, at, blockHTML) == addBlock(st, at, "TextContent", blockHTML, "html-embed", 0)

\* Lines 1690-1702
addStyledBlock(st, at, blockHTML) ==
    LET m == styleMatches(blockHTML)
    IN  IF m = <<>> THEN st ELSE addBlock(st, at, "TextContent", m[2], m[1], 0)

\* What api.UploadImage and the type assertions on its result can give:
\* an error; a "file" object with id, width, height and url; no "file" object
\* or one without a numeric id (nothing is appended, nothing is recorded); a
\* "file" object with an id but without a numeric width or height or a string
\* url (the type assertion panics).
ImageOutcomes == {"err", "ok", "noid", "partial"}

skippedImage(file) ==
    [file |-> file, article |-> ssManual[uCh].articles[uArt].id,
     chapterTitle |-> ssManual[uCh].title,
     articleTitle |-> ssManual[uCh].articles[uArt].title,
     stepTitle |-> ssManual[uCh].articles[uArt].steps[uStep].title]

\* Line 1562: chapterID := chapterMap[chapter.ID], the zero value for a missing key.
lookupChapterID(id) == IF id \in DOMAIN chapterMap THEN chapterMap[id] ELSE 0

\* An API call: chapter is the chapter id a CreateArticle call carries (line
\* 1571), returned the number of chapters the CreateManual response lists.
apiCall(kind, ok) ==
    [kind |-> kind, ch |-> uCh, art |-> IF kind = "manual" THEN 0 ELSE uArt, ok |-> ok,
     chapter |-> IF kind = "article" THEN lookupChapterID(ssManual[uCh].id) ELSE 0,
     returned |-> 0]

segState == [blocks |-> contentBlocks, so |-> sortOrder, uuid |-> uuidCount]

UploadIdle ==
    /\ ssManual = <<>> /\ upc = "idle" /\ uErr = "none" /\ uCh = 0 /\ uArt = 0 /\ uStep = 0
    /\ chapterMap = <<>> /\ articleID = 0 /\ imagesDirFiles = {} /\ stepContent = <<>>
    /\ indexes = <<>> /\ matchNo = 0 /\ lastIndex = 0 /\ contentBlocks = <<>> /\ stepBlock = 0
    /\ sortOrder = 0 /\ uuidCount = 0 /\ skippedImages = <<>> /\ uploadedImagesCount = 0
    /\ calls = <<>> /\ submitted = <<>> /\ missingRefs = {}

InitUpload ==
    /\ ssManual \in UManuals(MaxTop, MaxArticles, MaxTotalSteps)
    /\ upc = "load" /\ uErr = "none" /\ uCh = 0 /\ uArt = 0 /\ uStep = 0
    /\ chapterMap = <<>> /\ articleID = 0 /\ imagesDirFiles = {} /\ stepContent = <<>>
    /\ indexes = <<>> /\ matchNo = 0 /\ lastIndex = 0 /\ contentBlocks = <<>> /\ stepBlock = 0
    /\ sortOrder = 0 /\ uuidCount = 0 /\ skippedImages = <<>> /\ uploadedImagesCount = 0
    /\ calls = <<>> /\ submitted = <<>> /\ missingRefs = {}

totalStepImages(articles) ==
    SumSeq([a \in DOMAIN articles |->
              SumSeq([s \in DOMAIN articles[a].steps |-> Len(articles[a].steps[s].images)])])

\* Lines 1479-1519: the TOC file is found, read and decoded, the totals are set.
UploadLoad ==
    /\ upc = "load"
    /\ \/ /\ upc' = "failed" /\ uErr' = "err"
          /\ UNCHANGED logger
       \/ /\ upc' = "createManual" /\ uErr' = uErr
          /\ logger' = [logger EXCEPT
                !.totalManuals = 1, !.totalChapters = Len(ssManual),
                !.totalArticles = SumSeq([c \in DOMAIN ssManual |-> Len(ssManual[c].articles)]),
                !.totalImages = SumSeq([c \in DOMAIN ssManual |-> totalStepImages(ssManual[c].articles)]),
                !.currentManual = 1, !.currentChapter = 0, !.currentArticle = 0,
                !.processedArticles = 0, !.processedImages = 0]
    /\ UNCHANGED <<ssManual, uCh, uArt, uStep, chapterMap, articleID, imagesDirFiles, stepContent,
                   indexes, matchNo, lastIndex, contentBlocks, stepBlock, sortOrder, uuidCount,
                   skippedImages, uploadedImagesCount, calls, submitted, missingRefs>>

\* Lines 1547-1555: chapter i of the response (its id is 100 + i) is mapped to
\* source chapter i's id; a later chapter with the same id overwrites the entry.
buildChapterMap(returned) ==
    LET n == IF returned < Len(ssManual) THEN returned ELSE Len(ssManual)
        ids == { ssManual[i].id : i \in 1..n }
    IN  [id \in ids |-> 100 + Max({ i \in 1..n : ssManual[i].id = id })]

\* The error of CreateManual is ignored.
manualFailed_Never(ok) == FALSE

\* Lines 1541-1544: if err != nil { return fmt.Errorf("failed to create manual") }
manualFailed(ok) == ~ok

\* Lines 1521-1555: the manual is created with its chapters.
UploadCreateManual ==
    /\ upc = "createManual"
    /\ \E ok \in BOOLEAN, returned \in 0..(Len(ssManual) + 1) :
          /\ calls' = Append(calls, [apiCall("manual", ok) EXCEPT
                                       !.returned = IF ok THEN returned ELSE 0])
          /\ IF manualFailed(ok)
             THEN /\ upc' = "failed" /\ uErr' = "err"
                  /\ UNCHANGED <<chapterMap, uCh>>
             ELSE /\ chapterMap' = buildChapterMap(IF ok THEN returned ELSE 0)
                  /\ upc' = "chapter" /\ uCh' = 1 /\ uErr' = uErr
    /\ UNCHANGED <<ssManual, uArt, uStep, articleID, imagesDirFiles, stepContent, indexes,
                   matchNo, lastIndex, contentBlocks, stepBlock, sortOrder, uuidCount,
                   skippedImages, uploadedImagesCount, submitted, missingRefs, logger>>

\* Lines 1560-1562: the next chapter.
UploadChapterBegin ==
    /\ upc = "chapter" /\ uCh <= Len(ssManual)
    /\ logger' = [logger EXCEPT !.currentChapter = uCh]
    /\ uArt' = 1 /\ upc' = "article"
    /\ UNCHANGED <<ssManual, uErr, uCh, uStep, chapterMap, articleID, imagesDirFiles, stepContent,
                   indexes, matchNo, lastIndex, contentBlocks, stepBlock, sortOrder, uuidCount,
                   skippedImages, uploadedImagesCount, calls, submitted, missingRefs>>

\* Line 1564: the articles of the chapter are exhausted.
UploadChapterEnd ==
    /\ upc = "article" /\ uArt > Len(ssManual[uCh].articles)
    /\ uCh' = uCh + 1 /\ upc' = "chapter"
    /\ UNCHANGED <<ssManual, uErr, uArt, uStep, chapterMap, articleID, imagesDirFiles, stepContent,
                   indexes, matchNo, lastIndex, contentBlocks, stepBlock, sortOrder, uuidCount,
                   skippedImages, uploadedImagesCount, calls, submitted, missingRefs, logger>>

\* The continue after a failed CreateArticle is missing.
skipArticle_Never(ok) == FALSE

\* Lines 1574-1578: if err != nil { Warning(...); continue }
skipArticle(ok) == ~ok

\* Lines 1564-1585: CreateArticle; on an error the article is left out.
UploadCreateArticle ==
    /\ upc = "article" /\ uArt <= Len(ssManual[uCh].articles)
    /\ logger' = [logger EXCEPT !.currentArticle = @ + 1]
    /\ \E ok \in BOOLEAN, files \in SUBSET PresentFiles :
          /\ calls' = Append(calls, apiCall("article", ok))
          /\ IF skipArticle(ok)
             THEN /\ uArt' = uArt + 1
                  /\ UNCHANGED <<upc, uStep, articleID, imagesDirFiles, contentBlocks, sortOrder>>
             ELSE /\ articleID' = IF ok THEN 500 + ssManual[uCh].articles[uArt].id ELSE 0
                  /\ imagesDirFiles' = files
                  /\ contentBlocks' = <<>> /\ sortOrder' = 1
                  /\ uStep' = 1 /\ upc' = "step"
                  /\ UNCHANGED uArt
    /\ UNCHANGED <<ssManual, uErr, uCh, chapterMap, stepContent, indexes, matchNo, lastIndex,
                   stepBlock, uuidCount, skippedImages, uploadedImagesCount, submitted, missingRefs>>

\* Lines 1587-1610: the StepContent block and the scan of the step's content.
UploadStepBegin ==
    /\ upc = "step" /\ uStep <= Len(ssManual[uCh].articles[uArt].steps)
    /\ \E content \in StepContents :
         /\ stepContent' = content
         /\ indexes' = findAllIndex(content, 1)
         /\ missingRefs' = missingRefs \cup
               { skippedImage(content[i].n) :
                   i \in { m \in DOMAIN content : Live(content[m], "img") /\ content[m].n \notin imagesDirFiles } }
    /\ LET st == addStepBlock(segState)
       IN  /\ contentBlocks' = st.blocks /\ sortOrder' = st.so /\ uuidCount' = st.uuid
           /\ stepBlock' = Len(st.blocks)
    /\ matchNo' = 1 /\ lastIndex' = 0 /\ upc' = "match"
    /\ UNCHANGED <<ssManual, uErr, uCh, uArt, uStep, chapterMap, articleID, imagesDirFiles,
                   skippedImages, uploadedImagesCount, calls, submitted, logger>>

\* Lines 1612-1705: one match of blockRegex: the text before it, then the block.
UploadMatch ==
    /\ upc = "match" /\ matchNo <= Len(indexes)
    /\ LET start == indexes[matchNo][1]
           end == indexes[matchNo][2]
           blockHTML == SubSeq(stepContent, start, end)
           st1 == addTextBlock(segState, stepBlock, SubSeq(stepContent, lastIndex + 1, start - 1))
           file == stepContent[start].n
           set(st) == /\ contentBlocks' = st.blocks /\ sortOrder' = st.so /\ uuidCount' = st.uuid
       IN  \/ /\ Live(stepContent[start], "img") /\ file \notin imagesDirFiles
              /\ set(st1)
              /\ skippedImages' = Append(skippedImages, skippedImage(file))
              /\ UNCHANGED <<calls, uploadedImagesCount>>
              /\ upc' = upc
           \/ /\ Live(stepContent[start], "img") /\ file \in imagesDirFiles
              /\ \E outcome \in ImageOutcomes :
                   /\ calls' = Append(calls, apiCall("image", outcome # "err"))
                   /\ IF outcome = "ok" THEN set(addImageBlock(st1, stepBlock, file)) ELSE set(st1)
                   /\ skippedImages' = IF outcome = "err"
                                       THEN Append(skippedImages, skippedImage(file))
                                       ELSE skippedImages
                   /\ uploadedImagesCount' = IF outcome = "ok" THEN uploadedImagesCount + 1
                                             ELSE uploadedImagesCount
                   /\ upc' = IF outcome = "partial" THEN "panic" ELSE upc
           \/ /\ Live(stepContent[start], "embed")
              /\ set(addEmbedBlock(st1, stepBlock, blockHTML))
              /\ UNCHANGED <<calls, uploadedImagesCount, skippedImages, upc>>
           \/ /\ Live(stepContent[start], "styled")
              /\ set(addStyledBlock(st1, stepBlock, blockHTML))
              /\ UNCHANGED <<calls, uploadedImagesCount, skippedImages, upc>>
    /\ lastIndex' = indexes[matchNo][2] /\ matchNo' = matchNo + 1
    /\ UNCHANGED <<ssManual, uErr, uCh, uArt, uStep, chapterMap, articleID, imagesDirFiles,
                   stepContent, indexes, stepBlock, submitted, missingRefs, logger>>

\* Lines 1707-1720: the text after the last match.
UploadStepEnd ==
    /\ upc = "match" /\ matchNo > Len(indexes)
    /\ LET st == addTextBlock(segState, stepBlock, SubSeq(stepContent, lastIndex + 1, Len(stepContent)))
       IN  /\ contentBlocks' = st.blocks /\ sortOrder' = st.so /\ uuidCount' = st.uuid
    /\ uStep' = uStep + 1 /\ upc' = "step"
    /\ UNCHANGED <<ssManual, uErr, uCh, uArt, chapterMap, articleID, imagesDirFiles, stepContent,
                   indexes, matchNo, lastIndex, stepBlock, skippedImages, uploadedImagesCount,
                   calls, submitted, missingRefs, logger>>

\* Lines 1722-1733: UpdateArticleContents; an error is logged, the counters move on.
UploadUpdate ==
    /\ upc = "step" /\ uStep > Len(ssManual[uCh].articles[uArt].steps)
    /\ \E ok \in BOOLEAN : calls' = Append(calls, apiCall("update", ok))
    /\ submitted' = contentBlocks
    /\ logger' = [logger EXCEPT
          !.processedArticles = @ + 1,
          !.processedImages = @ + totalStepImages(<< ssManual[uCh].articles[uArt] >>)]
    /\ uArt' = uArt + 1 /\ upc' = "article"
    /\ UNCHANGED <<ssManual, uErr, uCh, uStep, chapterMap, articleID, imagesDirFiles, stepContent,
                   indexes, matchNo, lastIndex, contentBlocks, stepBlock, sortOrder, uuidCount,
                   skippedImages, uploadedImagesCount, missingRefs>>

\* Lines 1736-1790: the summary is printed and nil is returned.
UploadFinish ==
    /\ upc = "chapter" /\ uCh > Len(ssManual)
    /\ upc' = "done" /\ uErr' = "nil"
    /\ UNCHANGED <<ssManual, uCh, uArt, uStep, chapterMap, articleID, imagesDirFiles, stepContent,
                   indexes, matchNo, lastIndex, contentBlocks, stepBlock, sortOrder, uuidCount,
                   skippedImages, uploadedImagesCount, calls, submitted, missingRefs, logger>>

\* ------------------------------------------------------------------ APIClient.request, UploadImage
DefaultRetryIn == 60
RateLimitDelay == 1250
Statuses == {200, 201, 429, 404, 500}
RetryIns == {0, 3}

\* json.Marshal and bytes.NewBuffer: a buffer is read once, then it is empty.
Marshal(d) == <<"json", d>>
NilReader == [nil |-> TRUE, bytes |-> <<>>, drained |-> FALSE]
NewBuffer(b) == [nil |-> FALSE, bytes |-> b, drained |-> FALSE]
drain(r) == IF r.nil THEN r ELSE [r EXCEPT !.drained = TRUE]

\* The body is not rebuilt: the reader of the previous attempt is used again.
recreateBody_Reuse(body, json, reader) == reader

\* Lines 373-375: if body != nil { reqBody = bytes.NewBuffer(jsonData) }
recreateBody(body, json, reader) == IF body # 0 THEN NewBuffer(json) ELSE reader

urlOf(kind, endpoint) == IF kind = "UploadImage" THEN 0 ELSE endpoint

\* What http.NewRequest and client.Do put on the wire for a reader.
wireOfReader(method, url, r) ==
    [method |-> method, url |-> url,
     kind |-> IF r.nil THEN "none" ELSE IF r.drained \/ r.bytes = <<>> THEN "empty" ELSE r.bytes[1],
     data |-> IF r.nil \/ r.drained \/ r.bytes = <<>> THEN 0 ELSE r.bytes[2],
     boundary |-> 0]

\* io.Copy(part, file) from the file's offset, in a multipart body.
wireOfMultipart(url, offset, content, boundary) ==
    [method |-> "POST", url |-> url, kind |-> "multipart",
     data |-> IF offset = 0 THEN content ELSE 0, boundary |-> boundary]

effectiveRetryIn(retryIn) == IF retryIn = 0 THEN DefaultRetryIn ELSE retryIn

count429 == Cardinality({ i \in DOMAIN rStatuses : rStatuses[i] = 429 })

RequestIdle ==
    /\ rpc = "idle" /\ rKind = "request" /\ rMethod = "GET" /\ rEndpoint = 0 /\ rData = 0
    /\ rUrlOK = TRUE /\ jsonData = <<>> /\ reqBody = NilReader /\ fileOffset = 0
    /\ boundaries = 0 /\ rSent = <<>> /\ rStatuses = <<>> /\ rSlept = <<>>
    /\ rHints = <<>>
    /\ rResult = "none" /\ rErr = "none"

InitRequest ==
    /\ rpc = "call"
    /\ rKind \in {"request", "UploadImage"}
    /\ rMethod \in IF rKind = "request" THEN {"GET", "POST", "PUT"} ELSE {"POST"}
    /\ rEndpoint \in IF rKind = "request" THEN {1, 2} ELSE {0}
    /\ rData \in IF rKind = "request" THEN 0..2 ELSE 1..2
    /\ rUrlOK \in BOOLEAN
    /\ jsonData = <<>> /\ reqBody = NilReader /\ fileOffset = 0
    /\ boundaries = 0 /\ rSent = <<>> /\ rStatuses = <<>> /\ rSlept = <<>>
    /\ rHints = <<>>
    /\ rResult = "none" /\ rErr = "none"

returnErr(why) == rpc' = "returned" /\ rResult' = "err" /\ rErr' = why

\* A 429 ends the call like any other failure status.
afterDo_GiveUp(transportErr, outcome, retryIn) ==
    IF transportErr
    THEN /\ returnErr("transport") /\ UNCHANGED <<rStatuses, rSlept, rHints>>
    ELSE /\ rStatuses' = Append(rStatuses, outcome)
         /\ IF outcome \in {200, 201}
            THEN /\ rSlept' = Append(rSlept, RateLimitDelay)
                 /\ rpc' = "returned" /\ rResult' = "ok" /\ rErr' = rErr
                 /\ UNCHANGED rHints
            ELSE IF outcome = 429
            THEN /\ rHints' = Append(rHints, retryIn)
                 /\ returnErr("status") /\ UNCHANGED rSlept
            ELSE /\ returnErr("status") /\ UNCHANGED <<rSlept, rHints>>

\* A 200 or 201 returns at once, without the delay.
afterDo_NoDelay(transportErr, outcome, retryIn) ==
    IF transportErr
    THEN /\ returnErr("transport") /\ UNCHANGED <<rStatuses, rSlept, rHints>>
    ELSE /\ rStatuses' = Append(rStatuses, outcome)
         /\ IF outcome \in {200, 201}
            THEN /\ rpc' = "returned" /\ rResult' = "ok" /\ rErr' = rErr
                 /\ UNCHANGED <<rSlept, rHints>>
            ELSE IF outcome = 429
            THEN /\ rSlept' = rSlept \o << 1000 * effectiveRetryIn(retryIn), RateLimitDelay >>
                 /\ rHints' = Append(rHints, retryIn)
                 /\ UNCHANGED <<rpc, rResult, rErr>>
            ELSE /\ returnErr("status") /\ UNCHANGED <<rSlept, rHints>>

\* Lines 412-449 and 622-659: what follows a response, or an error of client.Do.
afterDo(transportErr, outcome, retryIn) ==
    IF transportErr
    THEN /\ returnErr("transport") /\ UNCHANGED <<rStatuses, rSlept, rHints>>
    ELSE /\ rStatuses' = Append(rStatuses, outcome)
         /\ IF outcome \in {200, 201}
            THEN /\ rSlept' = Append(rSlept, RateLimitDelay)
                 /\ rpc' = "returned" /\ rResult' = "ok" /\ rErr' = rErr
                 /\ UNCHANGED rHints
            ELSE IF outcome = 429
            THEN /\ rSlept' = rSlept \o << 1000 * effectiveRetryIn(retryIn), RateLimitDelay >>
                 /\ rHints' = Append(rHints, retryIn)
                 /\ UNCHANGED <<rpc, rResult, rErr>>
            ELSE /\ returnErr("status") /\ UNCHANGED <<rSlept, rHints>>

\* Lines 345-370: the body is encoded.
RequestBegin ==
    /\ rpc = "call" /\ rKind = "request"
    /\ IF rData = 0
       THEN /\ rpc' = "loop" /\ UNCHANGED <<jsonData, reqBody, rResult, rErr>>
       ELSE \E marshalOK \in BOOLEAN :
              IF marshalOK
              THEN /\ jsonData' = Marshal(rData) /\ reqBody' = NewBuffer(Marshal(rData))
                   /\ rpc' = "loop" /\ UNCHANGED <<rResult, rErr>>
              ELSE /\ returnErr("marshal") /\ UNCHANGED <<jsonData, reqBody>>
    /\ UNCHANGED <<rKind, rMethod, rEndpoint, rData, rUrlOK, fileOffset, boundaries, rSent,
                   rStatuses, rSlept, rHints>>

\* Lines 371-450: one turn of the loop of request.
RequestAttempt ==
    /\ rpc = "loop" /\ rKind = "request"
    /\ LET body == recreateBody(rData, jsonData, reqBody)
       IN  IF ~rUrlOK
           THEN /\ returnErr("newRequest")
                /\ reqBody' = body
                /\ UNCHANGED <<rSent, rStatuses, rSlept, rHints>>
           ELSE \E transportErr \in BOOLEAN, outcome \in Statuses, retryIn \in RetryIns :
                  /\ outcome = 429 => count429 < Max429
                  /\ rSent' = Append(rSent, wireOfReader(rMethod, urlOf(rKind, rEndpoint), body))
                  /\ reqBody' = drain(body)
                  /\ afterDo(transportErr, outcome, retryIn)
    /\ UNCHANGED <<rKind, rMethod, rEndpoint, rData, rUrlOK, jsonData, fileOffset, boundaries>>

\* Lines 530-567: the file is opened and a first multipart body is written.
UploadImageBegin ==
    /\ rpc = "call" /\ rKind = "UploadImage"
    /\ \E step \in {"open", "multipart", "ok"} :
         IF step = "ok"
         THEN /\ fileOffset' = 1 /\ boundaries' = boundaries + 1
              /\ rpc' = "loop" /\ UNCHANGED <<rResult, rErr>>
         ELSE /\ returnErr(step)
              /\ fileOffset' = fileOffset
              /\ boundaries' = IF step = "multipart" THEN boundaries + 1 ELSE boundaries
    /\ UNCHANGED <<rKind, rMethod, rEndpoint, rData, rUrlOK, jsonData, reqBody, rSent,
                   rStatuses, rSlept, rHints>>

\* Lines 569-660: one turn of the loop of UploadImage: file.Seek(0, 0), a new
\* multipart writer, the file copied again.
UploadImageAttempt ==
    /\ rpc = "loop" /\ rKind = "UploadImage"
    /\ boundaries' = boundaries + 1
    /\ fileOffset' = 1
    /\ IF ~rUrlOK
       THEN /\ returnErr("newRequest") /\ UNCHANGED <<rSent, rStatuses, rSlept, rHints>>
       ELSE \E transportErr \in BOOLEAN, outcome \in Statuses, retryIn \in RetryIns :
              /\ outcome = 429 => count429 < Max429
              /\ rSent' = Append(rSent, wireOfMultipart(urlOf(rKind, rEndpoint), 0, rData,
                                                        boundaries + 1))
              /\ afterDo(transportErr, outcome, retryIn)
    /\ UNCHANGED <<rKind, rMethod, rEndpoint, rData, rUrlOK, jsonData, reqBody>>

\* ------------------------------------------------------------------ main
CredNames == {"account", "user", "token", "site"}
NoCreds == [c \in CredNames |-> ""]

\* Lines 2065-2076: a flag that is empty is read from the environment.
fromEnv(flag, env) == IF flag = "" THEN env ELSE flag

\* The site ID is not looked at.
credentialsMissing_NoSite(c) == c["account"] = "" \/ c["user"] = "" \/ c["token"] = ""

\* Line 2141
credentialsMissing(c) ==
    c["account"] = "" \/ c["user"] = "" \/ c["token"] = "" \/ c["site"] = ""

MainIdle ==
    /\ mpc = "idle" /\ showExamples = FALSE /\ inputPath = "" /\ upload = FALSE
    /\ flagCreds = NoCreds /\ envCreds = NoCreds /\ creds = NoCreds
    /\ outputDirOK = "unknown" /\ inputStat = "unknown" /\ convResult = "unknown"
    /\ outputBefore = "absent" /\ outputNow = "absent"
    /\ apiRequests = 0 /\ exitCode = -1

InitMain ==
    /\ mpc = "start"
    /\ showExamples \in BOOLEAN /\ inputPath \in {"", "in"} /\ upload \in BOOLEAN
    /\ flagCreds \in [CredNames -> {"", "flag"}]
    /\ envCreds \in [CredNames -> {"", "env"}]
    /\ creds = NoCreds
    /\ outputDirOK = "unknown" /\ inputStat = "unknown" /\ convResult = "unknown"
    /\ outputBefore \in {"absent", "prior"} /\ outputNow = outputBefore
    /\ apiRequests = 0 /\ exitCode = -1

exit(code) == mpc' = "exited" /\ exitCode' = code

\* Lines 2063-2077: PersistentPreRun.
MainPreRun ==
    /\ mpc = "start"
    /\ creds' = [c \in CredNames |-> fromEnv(flagCreds[c], envCreds[c])]
    /\ mpc' = "run"
    /\ UNCHANGED <<outputBefore, outputNow, showExamples, inputPath, upload, flagCreds, envCreds, outputDirOK,
                   inputStat, convResult, apiRequests, exitCode>>

\* Lines 2079-2088: the examples or the help are printed and Run returns.
MainHelp ==
    /\ mpc = "run" /\ (showExamples \/ inputPath = "")
    /\ exit(0)
    /\ UNCHANGED <<outputBefore, outputNow, showExamples, inputPath, upload, flagCreds, envCreds, creds, outputDirOK,
                   inputStat, convResult, apiRequests>>

\* Line 2099: os.RemoveAll(outputDir); when it fails the error is printed and
\* the run goes on with what is left of the directory.
removeAll(dir) ==
    IF dir = "absent" THEN {"absent"} ELSE {"absent", "part", dir}

\* Line 2102: os.MkdirAll(outputDir, 0755) creates the directory when it is
\* not there.
mkdirAll(dir, ok) == IF ok /\ dir = "absent" THEN "empty" ELSE dir

\* Lines 2090-2111: logs and the output directory are removed and created
\* again, the logger is opened.
MainDirs ==
    /\ mpc = "run" /\ ~showExamples /\ inputPath # ""
    /\ \E logsOK \in BOOLEAN, outOK \in BOOLEAN, loggerOK \in BOOLEAN :
         /\ outputDirOK' = IF ~logsOK THEN outputDirOK ELSE IF outOK THEN "yes" ELSE "no"
         /\ \E left \in removeAll(outputNow) :
              outputNow' = IF ~logsOK THEN outputNow ELSE mkdirAll(left, outOK)
         /\ IF logsOK /\ outOK /\ loggerOK
            THEN mpc' = "stat" /\ UNCHANGED exitCode
            ELSE exit(1)
    /\ UNCHANGED <<outputBefore, showExamples, inputPath, upload, flagCreds, envCreds, creds, inputStat,
                   convResult, apiRequests>>

\* Lines 2119-2132: os.Stat(inputPath) and the kind of input.
MainStat ==
    /\ mpc = "stat"
    /\ \E st \in {"absent", "dir", "zip", "other"} :
         /\ inputStat' = st
         /\ IF st \in {"dir", "zip"} THEN mpc' = "convert" /\ UNCHANGED exitCode ELSE exit(1)
    /\ UNCHANGED <<outputBefore, outputNow, showExamples, inputPath, upload, flagCreds, envCreds, creds, outputDirOK,
                   convResult, apiRequests>>

\* Lines 2125-2137 with ConvertZip (756-810) and ConvertDirectory (812-851):
\* the archive is extracted, content.xml is read and parsed, the output is
\* written; any error ends the run.
MainConvert ==
    /\ mpc = "convert"
    /\ \E r \in {"extract", "parseXML", "write", "ok"} :
         /\ r = "extract" => inputStat = "zip"
         /\ convResult' = r
         /\ outputNow' = IF r \in {"write", "ok"} THEN "written" ELSE outputNow
         /\ IF r # "ok" THEN exit(1)
            ELSE IF upload THEN mpc' = "upload" /\ UNCHANGED exitCode
            ELSE exit(0)
    /\ UNCHANGED <<outputBefore, showExamples, inputPath, upload, flagCreds, envCreds, creds, outputDirOK,
                   inputStat, apiRequests>>

\* Lines 2140-2150: the credentials are checked, then UploadToScreenSteps runs:
\* it fails before any request, fails at the create-manual request, returns
\* nil after its requests, or panics on an image response.
MainUpload ==
    /\ mpc = "upload"
    /\ IF credentialsMissing(creds)
       THEN exit(1) /\ UNCHANGED apiRequests
       ELSE \E r \in {"load", "manual", "nil", "panic"}, n \in 1..2 :
              /\ apiRequests' = IF r = "load" THEN 0 ELSE IF r = "manual" THEN 1 ELSE n
              /\ exit(IF r = "nil" THEN 0 ELSE IF r = "panic" THEN 2 ELSE 1)
    /\ UNCHANGED <<outputBefore, outputNow, showExamples, inputPath, upload, flagCreds, envCreds, creds, outputDirOK,
                   inputStat, convResult>>

\* ------------------------------------------------------------------ one call of cleanHTML
\* Raw bodies: spans with a class list, YouTube thumbnail blocks, runs of
\* paragraphs, and a few others; spans and YouTube blocks also entity-encoded.
SpanClasses == {"c0", "c3", "c4", "c5", "c6", "c7", "c9"}
ClassLists(n) == UNION {[1..m -> SpanClasses] : m \in 1..n}
SpanContents ==
    { <<Txt(1)>>, <<Txt(1), Tok("nl"), Txt(2)>>,
      <<Cls("span", <<"c5">>), Txt(1), Tok("/span")>> }
EncodeAll(s, times) == [i \in DOMAIN s |-> Encoded(s[i], times)]
Span(L, X) == <<Cls("span", L)>> \o X \o <<Tok("/span")>>
SpanBodies(n) == {EncodeAll(Span(L, X), e) : L \in ClassLists(n), X \in SpanContents, e \in 0..2}

YtTag(id, thumb, host, order) ==
    [Tok("yt") EXCEPT !.a = id, !.b = thumb, !.n = host, !.o = order]
YtBlock(t, X) == <<t>> \o X \o <<Tok("/div")>>
YtTags == {YtTag(a, b, h, o) : a \in {"", "v"}, b \in {"", "w"}, h \in 0..1, o \in YtOrders}
YtContents == { <<>>, <<Tok("nl")>> }
YtBodies == {EncodeAll(YtBlock(t, X) \o <<Txt(1)>>, e) : t \in YtTags, X \in YtContents, e \in {0, 2}}

ParaClasses == { <<"c48">>, <<"c10">>, <<"c44">>, <<"c10", "c48">>, <<"c1">> }
ParaInner(i) == { <<Txt(i)>>, <<Img("", i)>>, <<>> }
Para(L, X) == <<Cls("p", L)>> \o X \o <<Tok("/p"), Tok("nl")>>
RECURSIVE ParaRuns(_)
ParaRuns(n) ==
    IF n = 0 THEN {<<>>}
    ELSE {r \o Para(L, X) : r \in ParaRuns(n - 1), L \in ParaClasses, X \in ParaInner(n)}
ParaBodies(n) == {r \o <<Txt(9)>> : r \in UNION {ParaRuns(m) : m \in 1..n}}

OtherBodies ==
    { <<>>, RawBody(1),
      << [Tok("ol") EXCEPT !.a = "3"], Txt(1), Tok("/ol") >>,
      << Tok("ws"), Cls("span", <<"c9">>), Tok("ws"), Tok("/span"), Txt(1), Tok("nl") >> }

CleanInputs(paras, classes) ==
    SpanBodies(classes) \cup YtBodies \cup ParaBodies(paras) \cup OtherBodies

NoOut ==
    [raw |-> <<>>, decoded |-> <<>>, embedded |-> <<>>, styled |-> <<>>, spanned |-> <<>>,
     clean |-> <<>>]

CleanIdle == cpc = "idle" /\ cOrder = <<>> /\ cOut = NoOut

InitClean ==
    /\ cpc = "raw"
    /\ cOrder = <<>>
    /\ \E s \in CleanInputs(MaxParas, MaxClasses) : cOut = [NoOut EXCEPT !.raw = s]

\* if htmlStr == "" { return "" }
CleanEmpty ==
    /\ cpc = "raw" /\ cOut.raw = <<>>
    /\ cpc' = "done"
    /\ UNCHANGED <<cOrder, cOut>>

\* html.UnescapeString, twice
CleanDecode ==
    /\ cpc = "raw" /\ cOut.raw # <<>>
    /\ cOut' = [cOut EXCEPT !.decoded = UnescapeString(UnescapeString(cOut.raw))]
    /\ cpc' = "decoded"
    /\ UNCHANGED cOrder

CleanYouTube ==
    /\ cpc = "decoded"
    /\ cOut' = [cOut EXCEPT !.embedded = convertYouTubeEmbeds(cOut.decoded)]
    /\ cpc' = "embedded"
    /\ UNCHANGED cOrder

CleanParagraphs ==
    /\ cpc = "embedded"
    /\ \E order \in MapOrders :
         /\ cOrder' = order
         /\ cOut' = [cOut EXCEPT !.styled = convertVLPParagraphStyles(cOut.embedded, order)]
    /\ cpc' = "styled"

CleanSpans ==
    /\ cpc = "styled"
    /\ cOut' = [cOut EXCEPT !.spanned = spanReplace(cOut.styled, 1)]
    /\ cpc' = "spanned"
    /\ UNCHANGED cOrder

\* the empty spans, the start attribute, the image paths, strings.TrimSpace
CleanFinish ==
    /\ cpc = "spanned"
    /\ cOut' = [cOut EXCEPT !.clean =
                  TrimSpace(fixImagePaths(olStartRemove(emptySpanRemove(cOut.spanned, 1))))]
    /\ cpc' = "done"
    /\ UNCHANGED cOrder

\* ------------------------------------------------------------------ entity decoding
\* A text is a sequence of pieces: "&", the entity-name tails "amp;" and "lt;",
\* and "x" for any other character.  html.UnescapeString reads the text once
\* from left to right, replaces "&amp;" by "&" and "&lt;" by "<", and does not
\* read again what it has written.
Pieces == {"&", "amp;", "lt;", "x"}
Texts(n) == UNION {[1..m -> Pieces] : m \in 0..n}

RECURSIVE unescapeText_FirstOnly(_)
unescapeText_FirstOnly(s) ==
    IF s = <<>> THEN <<>>
    ELSE IF Len(s) >= 2 /\ s[1] = "&" /\ s[2] = "amp;" THEN <<"&">> \o SubSeq(s, 3, Len(s))
    ELSE IF Len(s) >= 2 /\ s[1] = "&" /\ s[2] = "lt;" THEN <<"<">> \o SubSeq(s, 3, Len(s))
    ELSE <<s[1]>> \o unescapeText_FirstOnly(Tail(s))

RECURSIVE unescapeText(_)
unescapeText(s) ==
    IF s = <<>> THEN <<>>
    ELSE IF Len(s) >= 2 /\ s[1] = "&" /\ s[2] = "amp;"
         THEN <<"&">> \o unescapeText(SubSeq(s, 3, Len(s)))
    ELSE IF Len(s) >= 2 /\ s[1] = "&" /\ s[2] = "lt;"
         THEN <<"<">> \o unescapeText(SubSeq(s, 3, Len(s)))
    ELSE <<s[1]>> \o unescapeText(Tail(s))

DecodeIdle == dHist = <<>>

InitDecode == \E t \in Texts(MaxText) : dHist = <<t>>

\* decoded := html.UnescapeString(htmlStr); decoded = html.UnescapeString(decoded)
DecodeTwice ==
    /\ Len(dHist) = 1
    /\ dHist' = dHist \o << unescapeText(dHist[1]), unescapeText(unescapeText(dHist[1])) >>

\* one more html.UnescapeString of what cleanHTML decoded
DecodeAgain ==
    /\ Len(dHist) = 3
    /\ dHist' = Append(dHist, unescapeText(dHist[3]))

\* ------------------------------------------------------------------ writeOutput
logLine(level, msg, arg) == [level |-> level, msg |-> msg, arg |-> arg]

\* The images of the steps of an article, in the order of the two inner loops,
\* each with the title of its step.
RECURSIVE imagesOfSteps(_)
imagesOfSteps(steps) ==
    IF steps = <<>> THEN <<>>
    ELSE [i \in DOMAIN steps[1].images |->
             [filename |-> steps[1].images[i].filename, step |-> steps[1].title]]
         \o imagesOfSteps(Tail(steps))

referencedImages(m) ==
    UNION { UNION { {x.filename : x \in Range(imagesOfSteps(m[c].articles[a].steps))} :
                    a \in DOMAIN m[c].articles } : c \in DOMAIN m }

\* The log lines of the image loop of one article: srcImage == "" gives the
\* warning and continue, a failed copyFile another warning, a copy "Copied".
RECURSIVE copyLines(_, _, _, _, _)
copyLines(imgs, chapterTitle, articleTitle, source, copyOK) ==
    IF imgs = <<>> THEN <<>>
    ELSE << IF imgs[1].filename \notin source
            THEN logLine("WARNING", "Source image not found for copy",
                         <<imgs[1].filename, chapterTitle, articleTitle, imgs[1].step>>)
            ELSE IF ~copyOK
            THEN logLine("WARNING", "Failed to copy image", <<imgs[1].filename>>)
            ELSE logLine("SUBSTEP", "Copied", <<imgs[1].filename>>) >>
         \o copyLines(Tail(imgs), chapterTitle, articleTitle, source, copyOK)

copiedCount(lines) == Cardinality({i \in DOMAIN lines : lines[i].msg = "Copied"})

WriteIdle ==
    /\ wpc = "idle" /\ wManual = <<>> /\ wSource = {} /\ wCh = 0 /\ wArt = 0
    /\ articleCount = 0 /\ imageCount = 0 /\ wLog = <<>>

InitWrite ==
    /\ wpc = "begin"
    /\ wManual \in UManuals(MaxTop, MaxArticles, MaxTotalSteps)
    /\ wSource \in SUBSET referencedImages(wManual)
    /\ wCh = 0 /\ wArt = 0 /\ articleCount = 0 /\ imageCount = 0
    /\ wLog = <<>>

\* return 0, 0, err; ConvertZip returns "failed to write output"
writeFails ==
    /\ wpc' = "error"
    /\ articleCount' = 0
    /\ imageCount' = 0
    /\ UNCHANGED <<wManual, wSource, wCh, wArt, wLog>>

\* the two directories and the TOC file
WriteBegin ==
    /\ wpc = "begin"
    /\ \E ok \in BOOLEAN :
         IF ok
         THEN /\ wpc' = "articles"
              /\ wCh' = 1
              /\ wArt' = 1
              /\ wLog' = Append(wLog, logLine("SUBSTEP", "Created TOC", <<>>))
              /\ UNCHANGED <<wManual, wSource, articleCount, imageCount>>
         ELSE writeFails

\* one pass of the inner loop: the article JSON, its image directory, its images
WriteArticle ==
    /\ wpc = "articles"
    /\ wCh <= Len(wManual)
    /\ wArt <= Len(wManual[wCh].articles)
    /\ \E ok \in BOOLEAN, copyOK \in BOOLEAN :
         IF ok
         THEN LET article == wManual[wCh].articles[wArt]
                  lines == copyLines(imagesOfSteps(article.steps), wManual[wCh].title,
                                     article.title, wSource, copyOK)
              IN  /\ wLog' = wLog \o lines
                  /\ imageCount' = imageCount + copiedCount(lines)
                  /\ articleCount' = articleCount + 1
                  /\ wArt' = wArt + 1
                  /\ UNCHANGED <<wpc, wManual, wSource, wCh>>
         ELSE writeFails

WriteChapterEnd ==
    /\ wpc = "articles"
    /\ wCh <= Len(wManual)
    /\ wArt > Len(wManual[wCh].articles)
    /\ wCh' = wCh + 1
    /\ wArt' = 1
    /\ UNCHANGED <<wpc, wManual, wSource, articleCount, imageCount, wLog>>

\* return articleCount, imageCount, nil
WriteReturn ==
    /\ wpc = "articles"
    /\ wCh > Len(wManual)
    /\ wpc' = "returned"
    /\ wLog' = wLog \o << logLine("SUBSTEP", "Created article files with images",
                                  <<articleCount, imageCount>>),
                          logLine("SUCCESS", "Output written to", <<>>) >>
    /\ UNCHANGED <<wManual, wSource, wCh, wArt, articleCount, imageCount>>

\* the end of ConvertZip and of ConvertDirectory
ConvertComplete ==
    /\ wpc = "returned"
    /\ wpc' = "done"
    /\ wLog' = wLog \o << logLine("HEADER", "Conversion Complete!", <<>>),
                          logLine("SUCCESS", "ScreenSteps content created at", <<>>),
                          logLine("SUCCESS", "Converted chapters, articles, images",
                                  <<Len(wManual), articleCount, imageCount>>),
                          logLine("INFO", "Total execution time", <<>>) >>
    /\ UNCHANGED <<wManual, wSource, wCh, wArt, articleCount, imageCount>>

\* ------------------------------------------------------------------ specifications
OtherIdle == CleanIdle /\ DecodeIdle /\ WriteIdle

flattenFrame == <<uploadVars, requestVars, mainVars, otherVars>>

NextFlatten ==
    \/ FlattenCount /\ UNCHANGED flattenFrame
    \/ FlattenSkip /\ UNCHANGED flattenFrame
    \/ FlattenChapterBegin /\ UNCHANGED flattenFrame
    \/ FlattenArticle /\ UNCHANGED flattenFrame
    \/ FlattenChapterEnd /\ UNCHANGED flattenFrame
    \/ FlattenReturn /\ UNCHANGED flattenFrame

InitFlattenOnly == InitFlatten /\ UploadIdle /\ RequestIdle /\ MainIdle /\ OtherIdle

SpecFlatten == InitFlattenOnly /\ [][NextFlatten]_vars

uploadFrame == <<manual, fpc, fidx, fart, chapter, position, chapterIdx, chapters,
                 requestVars, mainVars, otherVars>>

NextUpload ==
    \/ UploadLoad /\ UNCHANGED uploadFrame
    \/ UploadCreateManual /\ UNCHANGED uploadFrame
    \/ UploadChapterBegin /\ UNCHANGED uploadFrame
    \/ UploadChapterEnd /\ UNCHANGED uploadFrame
    \/ UploadCreateArticle /\ UNCHANGED uploadFrame
    \/ UploadStepBegin /\ UNCHANGED uploadFrame
    \/ UploadMatch /\ UNCHANGED uploadFrame
    \/ UploadStepEnd /\ UNCHANGED uploadFrame
    \/ UploadUpdate /\ UNCHANGED uploadFrame
    \/ UploadFinish /\ UNCHANGED uploadFrame

InitUploadOnly == InitUpload /\ manual = <<>> /\ FlattenIdle /\ RequestIdle /\ MainIdle /\ OtherIdle

SpecUpload == InitUploadOnly /\ [][NextUpload]_vars

\* main, lines 2114-2146: the conversion has returned and UploadToScreenSteps
\* is called with the same Logger; the locals of flattenStructure are gone,
\* the manual to upload is what is read from the TOC file.
UploadEnter ==
    /\ fpc = "done" /\ upc = "idle"
    /\ ssManual' \in UManuals(MaxTop, MaxArticles, MaxTotalSteps)
    /\ upc' = "load"
    /\ manual' = <<>> /\ fpc' = "idle" /\ fidx' = 0 /\ fart' = 0 /\ chapter' = NoChapter
    /\ position' = 0 /\ chapterIdx' = 0 /\ chapters' = <<>>
    /\ UNCHANGED <<logger, uErr, uCh, uArt, uStep, chapterMap, articleID, imagesDirFiles,
                   stepContent, indexes, matchNo, lastIndex, contentBlocks, stepBlock, sortOrder,
                   uuidCount, skippedImages, uploadedImagesCount, calls, submitted, missingRefs>>

\* A run with --upload: flattenStructure, then UploadToScreenSteps.
NextProgress ==
    \/ NextFlatten
    \/ UploadEnter /\ UNCHANGED <<requestVars, mainVars, otherVars>>
    \/ NextUpload

InitProgressOnly == InitFlattenOnly

SpecProgress == InitProgressOnly /\ [][NextProgress]_vars

requestFrame == <<flattenVars, uploadVars, mainVars, otherVars>>

NextRequest ==
    \/ RequestBegin /\ UNCHANGED requestFrame
    \/ RequestAttempt /\ UNCHANGED requestFrame
    \/ UploadImageBegin /\ UNCHANGED requestFrame
    \/ UploadImageAttempt /\ UNCHANGED requestFrame

InitRequestOnly == InitRequest /\ manual = <<>> /\ FlattenIdle /\ UploadIdle /\ MainIdle /\ OtherIdle

SpecRequest == InitRequestOnly /\ [][NextRequest]_vars

\* The call runs on: time.Sleep ends, client.Do ends within its Timeout, and
\* the server answers 429 at most Max429 times to one call.
SpecRequestLive == InitRequestOnly /\ [][NextRequest]_vars /\ WF_vars(NextRequest)

mainFrame == <<flattenVars, uploadVars, requestVars, otherVars>>

NextMain ==
    \/ MainPreRun /\ UNCHANGED mainFrame
    \/ MainHelp /\ UNCHANGED mainFrame
    \/ MainDirs /\ UNCHANGED mainFrame
    \/ MainStat /\ UNCHANGED mainFrame
    \/ MainConvert /\ UNCHANGED mainFrame
    \/ MainUpload /\ UNCHANGED mainFrame

InitMainOnly == InitMain /\ manual = <<>> /\ FlattenIdle /\ UploadIdle /\ RequestIdle /\ OtherIdle

SpecMain == InitMainOnly /\ [][NextMain]_vars

cleanFrame == <<flattenVars, uploadVars, requestVars, mainVars, decodeVars, writeVars>>

NextClean ==
    \/ CleanEmpty /\ UNCHANGED cleanFrame
    \/ CleanDecode /\ UNCHANGED cleanFrame
    \/ CleanYouTube /\ UNCHANGED cleanFrame
    \/ CleanParagraphs /\ UNCHANGED cleanFrame
    \/ CleanSpans /\ UNCHANGED cleanFrame
    \/ CleanFinish /\ UNCHANGED cleanFrame

InitCleanOnly ==
    InitClean /\ manual = <<>> /\ FlattenIdle /\ UploadIdle /\ RequestIdle /\ MainIdle
    /\ DecodeIdle /\ WriteIdle

SpecClean == InitCleanOnly /\ [][NextClean]_vars

decodeFrame == <<flattenVars, uploadVars, requestVars, mainVars, cleanVars, writeVars>>

NextDecode ==
    \/ DecodeTwice /\ UNCHANGED decodeFrame
    \/ DecodeAgain /\ UNCHANGED decodeFrame

InitDecodeOnly ==
    InitDecode /\ manual = <<>> /\ FlattenIdle /\ UploadIdle /\ RequestIdle /\ MainIdle
    /\ CleanIdle /\ WriteIdle

SpecDecode == InitDecodeOnly /\ [][NextDecode]_vars

writeFrame == <<flattenVars, uploadVars, requestVars, mainVars, cleanVars, decodeVars>>

NextWrite ==
    \/ WriteBegin /\ UNCHANGED writeFrame
    \/ WriteArticle /\ UNCHANGED writeFrame
    \/ WriteChapterEnd /\ UNCHANGED writeFrame
    \/ WriteReturn /\ UNCHANGED writeFrame
    \/ ConvertComplete /\ UNCHANGED writeFrame

InitWriteOnly ==
    InitWrite /\ manual = <<>> /\ FlattenIdle /\ UploadIdle /\ RequestIdle /\ MainIdle
    /\ CleanIdle /\ DecodeIdle

SpecWrite == InitWriteOnly /\ [][NextWrite]_vars

\* ------------------------------------------------------------------ claims: flattenStructure
\* The top-level nodes that become chapters, in source order.
keptNodes == SelectSeq([i \in DOMAIN manual |-> [idx |-> i, node |-> manual[i]]],
                       LAMBDA e : ~isTitleNode(e.idx, e.node))

\* Every chapter built so far: the returned ones and the one in progress.
builtChapters == IF fpc = "article" THEN Append(chapters, chapter) ELSE chapters

sourceArticle(c, a) == keptNodes[c].node.kids[a]

cleanedBodies(node) == { cleanHTML(getNodeContent(node), o) : o \in MapOrders }

isSynthesized(step, articleNode) ==
    /\ step.id = articleNode.id /\ step.title = articleNode.title
    /\ step.content \in cleanedBodies(articleNode)
    /\ step.images = getNodeImages(articleNode)

\* C1: every Article built by flattenStructure has at least one Step, and an
\* article node without child nodes (nil or empty children) gives exactly one
\* Step that carries the node's own id, title, cleaned content and images.
C1_EveryArticleHasAStep ==
    \A c \in DOMAIN builtChapters : \A a \in DOMAIN builtChapters[c].articles :
        LET article == builtChapters[c].articles[a]
            node == sourceArticle(c, a)
        IN  /\ Len(article.steps) >= 1
            /\ (node.nilKids \/ Len(node.kids) = 0) =>
                  /\ Len(article.steps) = 1
                  /\ isSynthesized(article.steps[1], node)

C1_Witness ==
    /\ fpc = "done"
    /\ \E c \in DOMAIN chapters : \E a, b \in DOMAIN chapters[c].articles :
          /\ sourceArticle(c, a).nilKids /\ sourceArticle(c, a).loc
          /\ ~sourceArticle(c, b).nilKids /\ sourceArticle(c, b).kids = <<>>
          /\ Len(chapters[c].articles[b].steps) = 1

C3_StepOrdersContiguous ==
    \A c \in DOMAIN builtChapters : \A a \in DOMAIN builtChapters[c].articles :
        \A s \in DOMAIN builtChapters[c].articles[a].steps :
            builtChapters[c].articles[a].steps[s].order = s

\* C3 amended: the order of a Step is the orderIndex of its source step node,
\* unchanged, and the synthesized Step of an article without child nodes has
\* order 0.
C3_StepOrdersAreSourceOrders ==
    \A c \in DOMAIN builtChapters : \A a \in DOMAIN builtChapters[c].articles :
        LET article == builtChapters[c].articles[a]
            node == sourceArticle(c, a)
        IN  IF node.nilKids \/ Len(node.kids) = 0
            THEN \A s \in DOMAIN article.steps : article.steps[s].order = 0
            ELSE /\ Len(article.steps) = Len(node.kids)
                 /\ \A s \in DOMAIN article.steps : article.steps[s].order = node.kids[s].order

C3_Witness ==
    /\ fpc = "done"
    /\ \E c \in DOMAIN chapters : \E a, b \in DOMAIN chapters[c].articles :
          /\ Len(chapters[c].articles[a].steps) = 2
          /\ chapters[c].articles[a].steps[1].order = 1
          /\ chapters[c].articles[a].steps[2].order = 0
          /\ sourceArticle(c, b).nilKids
          /\ chapters[c].articles[b].steps[1].order = 0

\* ------------------------------------------------------------------ claims: UploadToScreenSteps
callKey(c) == <<c.ch, c.art>>
keyLE(k1, k2) == k1[1] < k2[1] \/ (k1[1] = k2[1] /\ k1[2] <= k2[2])
callsOf(key) == { i \in DOMAIN calls : calls[i].kind # "manual" /\ callKey(calls[i]) = key }
blockLists == {contentBlocks, submitted}

\* C4: in the content-block list of every article, while it is built and
\* when it is submitted, the sort_order of the i-th block is i: the values
\* are 1, 2, ..., k in list order.
C4_SortOrdersSequential ==
    \A L \in blockLists : \A i \in DOMAIN L : L[i].sort_order = i

\* A submitted list of two steps with a text block, an uploaded image and a
\* text block after it, in a run that also skipped an image.
C4_Witness ==
    /\ Len(submitted) >= 5
    /\ \E i \in DOMAIN submitted : i > 1 /\ submitted[i].type = "StepContent"
    /\ \E i \in DOMAIN submitted :
         /\ submitted[i].type = "ImageContentBlock"
         /\ i < Len(submitted) /\ submitted[i + 1].type = "TextContent"
    /\ skippedImages # <<>>

\* C5 as stated: every identifier in a StepContent block's child list is the
\* identifier of a block at the same or an earlier position of the list.
C5_ChildrenAtOrBefore ==
    \A i \in DOMAIN submitted :
        submitted[i].type = "StepContent" =>
            \A k \in DOMAIN submitted[i].content_block_ids :
                \E j \in 1..i : submitted[j].uuid = submitted[i].content_block_ids[k]

\* C5 amended: the identifiers in a StepContent block's child list are, in
\* order, the identifiers of the blocks that immediately follow it, up to the
\* next StepContent block or the end of the list; no other block has children.
C5_ChildrenFollowTheirStep ==
    \A L \in blockLists : \A i \in DOMAIN L :
        LET ids == L[i].content_block_ids
        IN  IF L[i].type = "StepContent"
            THEN /\ i + Len(ids) <= Len(L)
                 /\ \A k \in DOMAIN ids :
                      L[i + k].uuid = ids[k] /\ L[i + k].type # "StepContent"
                 /\ i + Len(ids) < Len(L) => L[i + Len(ids) + 1].type = "StepContent"
            ELSE ids = <<>>

\* A submitted list whose second StepContent block has two children or more.
C5_Witness ==
    \E i \in DOMAIN submitted :
        /\ i > 1 /\ submitted[i].type = "StepContent"
        /\ Len(submitted[i].content_block_ids) >= 2

C8_DependencyOrder ==
    /\ \A i \in DOMAIN calls : (calls[i].kind = "manual") <=> (i = 1)
    /\ Len(calls) > 1 => calls[1].ok
    /\ \A i, j \in DOMAIN calls :
         (1 < i /\ i < j) => keyLE(callKey(calls[i]), callKey(calls[j]))
    /\ \A i \in DOMAIN calls :
         i > 1 =>
           LET mine == callsOf(callKey(calls[i]))
           IN  /\ (calls[i].kind = "article") <=> (i = Min(mine))
               /\ calls[i].kind = "update" => i = Max(mine)
               /\ (calls[i].kind = "article" /\ calls[i].ok /\ Max(mine) < Len(calls))
                     => calls[Max(mine)].kind = "update"

\* Two articles were created, the first with an image upload, and both were
\* updated.
C8_Witness ==
    \E i, j, k \in DOMAIN calls :
        /\ i < j /\ j < k
        /\ calls[i].kind = "image" /\ calls[j].kind = "update" /\ calls[k].kind = "update"
        /\ callKey(calls[i]) = callKey(calls[j])

lastStatus == IF rStatuses = <<>> THEN 0 ELSE rStatuses[Len(rStatuses)]
sameRequest(w1, w2) ==
    w1.method = w2.method /\ w1.url = w2.url /\ w1.kind = w2.kind /\ w1.data = w2.data

\* C7 as stated: the call returns nil only after a 200 or 201, returns an
\* error only on a transport error or on a status other than 200, 201 and
\* 429, and every attempt sends the method, URL and body of the first.
C7_ErrorOnlyFromTransportOrStatus ==
    /\ rResult = "ok" => lastStatus \in {200, 201}
    /\ rResult = "err" =>
         \/ rErr = "transport"
         \/ rErr = "status" /\ lastStatus \notin {200, 201, 429}
    /\ \A i \in DOMAIN rSent : sameRequest(rSent[i], rSent[1])

\* C7 amended: the call returns nil only after a 200 or 201; it returns an
\* error only on a transport error, on a status other than 200, 201 and 429,
\* or when the request cannot be built, and then nothing was sent; every
\* response before the last was a 429; every attempt sends the caller's
\* method and URL and the same body content.
C7_RetryIsTransparent ==
    /\ rResult = "ok" => lastStatus \in {200, 201}
    /\ rResult = "err" =>
         \/ rErr = "transport" /\ Len(rSent) = Len(rStatuses) + 1
         \/ rErr = "status" /\ lastStatus \notin {200, 201, 429}
         \/ rErr \in {"marshal", "newRequest", "open", "multipart"} /\ rSent = <<>>
    /\ \A i \in DOMAIN rStatuses : i < Len(rStatuses) => rStatuses[i] = 429
    /\ \A i \in DOMAIN rSent :
         /\ rSent[i].method = rMethod /\ rSent[i].url = urlOf(rKind, rEndpoint)
         /\ rSent[i].kind = (IF rKind = "UploadImage" THEN "multipart"
                             ELSE IF rData = 0 THEN "none" ELSE "json")
         /\ rSent[i].data = rData

\* A request with a body succeeded at the third attempt, after two 429.
C7_Witness ==
    /\ rResult = "ok" /\ rKind = "request" /\ rData # 0
    /\ Len(rSent) = 3 /\ rStatuses[1] = 429 /\ rStatuses[2] = 429

\* ------------------------------------------------------------------ claims: main
exited == mpc = "exited"

aCredentialIsAbsent == \E c \in CredNames : flagCreds[c] = "" /\ envCreds[c] = ""

C11_CleanedIsFunctionOfRaw ==
    cpc = "done" => \A order \in MapOrders : cleanHTML(cOut.raw, order) = cOut.clean

\* What the span rewrite is to give for <span class="L">X</span>: X inside
\* <strong> when c5 is in L, else inside the tag of the first class of L that
\* the class-to-tag table knows, else X alone.
promisedSpan(L, X) ==
    LET known == {i \in DOMAIN L : classToTagMap(L[i]) # ""}
        tag == IF "c5" \in Range(L) THEN "strong"
               ELSE IF known = {} THEN ""
               ELSE classToTagMap(L[Min(known)])
    IN  IF tag = "" THEN X ELSE <<Tok(tag)>> \o X \o <<Tok(closeTag(tag))>>

\* C13 -- a span with class list L and content X is rewritten to X inside
\* <strong> if c5 is anywhere in L, otherwise inside the tag of the first class
\* of L found in the class-to-tag table, otherwise to X alone without a span tag.
C13_SpanRewrite ==
    cpc \in {"spanned", "done"} =>
        \A L \in ClassLists(MaxClasses), X \in SpanContents :
            cOut.styled = Span(L, X) => cOut.spanned = promisedSpan(L, X)

\* The table of docs/FORMATTING.md, "Supported Formatting".
documentedClasses == {"c3", "c4", "c5", "c6", "c7"}
documentedTag(c) ==
    CASE c \in {"c5", "c3"} -> "strong"
      [] c = "c4" -> "em"
      [] c = "c6" -> "code"
      [] c = "c7" -> "u"

documentedClose(tag) ==
    CASE tag = "strong" -> "/strong"
      [] tag = "em" -> "/em"
      [] tag = "code" -> "/code"
      [] tag = "u" -> "/u"

\* C14 -- a span of one documented class is rewritten to the tag the formatting
\* table gives for it: c5 and c3 <strong>, c4 <em>, c6 <code>, c7 <u>.
C14_DocumentedTags ==
    cpc \in {"spanned", "done"} =>
        \A c \in documentedClasses :
            cOut.styled = Span(<<c>>, <<Txt(1)>>) =>
                cOut.spanned = << Tok(documentedTag(c)), Txt(1),
                                  Tok(documentedClose(documentedTag(c))) >>

\* What the YouTube rewrite is to give for the block of tag t: the embed of
\* data-media-id when there is one, else the embed of the id in
\* data-thumb-url (.../vi/<id>/...), else the block as it was.
promisedEmbed(t, X) ==
    IF t.a # "" THEN screenStepsEmbed(t.a)
    ELSE IF t.b # "" THEN screenStepsEmbed(t.b)
    ELSE YtBlock(t, X)

\* C15 -- a YouTube block with data-media-id=V becomes the embed of V, also
\* when a data-thumb-url with another id is present; a block with only a
\* data-thumb-url .../vi/W/... becomes the embed of W; a block with neither is
\* left unchanged; in either order of the class and data attributes.
C15_YouTubeEmbed ==
    cpc \in {"embedded", "styled", "spanned", "done"} =>
        \A t \in YtTags, X \in YtContents :
            cOut.decoded = YtBlock(t, X) \o <<Txt(1)>> =>
                cOut.embedded = promisedEmbed(t, X) \o <<Txt(1)>>

\* A body made of paragraphs, each followed by a line break, and a last text.
isParaBody(s) == Len(s) >= 2 /\ Live(s[1], "p") /\ s[Len(s)] = Txt(9)

\* Its paragraphs, as records of the class list and the content.
RECURSIVE parasOf(_)
parasOf(s) ==
    IF s = <<>> \/ ~Live(s[1], "p") THEN <<>>
    ELSE LET j == FirstLive(s, 2, "/p")
         IN  << [cls |-> s[1].cls, inner |-> SubSeq(s, 2, j - 1)] >>
             \o parasOf(SubSeq(s, j + 2, Len(s)))

recognised(para) == {c \in pClasses : c \in Range(para.cls)}
paraTag(para) == <<Cls("p", para.cls)>> \o para.inner \o <<Tok("/p")>>
hasText(para) == \E i \in DOMAIN para.inner : para.inner[i].k = "txt"
imageOnly(para) == ~hasText(para) /\ \E i \in DOMAIN para.inner : para.inner[i].k = "img"

\* The length of the longest prefix of ps whose paragraphs all carry class c.
RECURSIVE runLength(_, _)
runLength(ps, c) ==
    IF ps = <<>> \/ c \notin recognised(ps[1]) THEN 0 ELSE 1 + runLength(Tail(ps), c)

RECURSIVE tagsWhere(_, _)
tagsWhere(run, text) ==
    IF run = <<>> THEN <<>>
    ELSE (IF (text /\ hasText(run[1])) \/ (~text /\ imageOnly(run[1]))
          THEN paraTag(run[1]) ELSE <<>>) \o tagsWhere(Tail(run), text)

\* What a run of class c is to become: its text paragraphs in one wrapper of
\* the style of c, then its image-only paragraphs; the others are dropped.
promisedRun(run, c) ==
    (IF tagsWhere(run, TRUE) = <<>> THEN <<>>
     ELSE << [Tok("styled") EXCEPT !.a = pClassToStyleMap(c)] >> \o tagsWhere(run, TRUE)
          \o << Tok("/div") >>)
    \o tagsWhere(run, FALSE)

\* The bodies the paragraphs ps may become: each maximal run of a shared
\* recognised class is replaced by promisedRun, every other paragraph stays.
\* A paragraph with two recognised classes leaves a choice of the shared class.
RECURSIVE promisedParas(_)
promisedParas(ps) ==
    IF ps = <<>> THEN { <<>> }
    ELSE IF recognised(ps[1]) = {}
         THEN {paraTag(ps[1]) \o <<Tok("nl")>> \o t : t \in promisedParas(Tail(ps))}
    ELSE UNION { {promisedRun(SubSeq(ps, 1, runLength(ps, c)), c) \o t :
                     t \in promisedParas(SubSeq(ps, runLength(ps, c) + 1, Len(ps)))} :
                 c \in recognised(ps[1]) }

\* C16 -- every maximal run of consecutive paragraphs sharing a
\* recognised style class becomes one wrapper div of that style holding the
\* text paragraphs of the run in order, followed by the image-only paragraphs
\* of the run in order, before the content that followed the run; paragraphs
\* with neither text nor image are dropped, a run with neither yields nothing.
C16_RunsAreWrapped ==
    (cpc \in {"styled", "spanned", "done"} /\ isParaBody(cOut.embedded)) =>
        \E t \in promisedParas(parasOf(cOut.embedded)) : cOut.styled = t \o <<Txt(9)>>

\* ------------------------------------------------------------------ claims: entity decoding
\* A text made of plain text without "&" and of entities: every "&" starts one.
everyAmpStartsAnEntity(t) ==
    \A i \in DOMAIN t : t[i] = "&" => i < Len(t) /\ t[i + 1] \in {"amp;", "lt;"}

\* The single- and double-encoded entities, and a character that is not part
\* of one.
Segments ==
    { <<"x">>, <<"&", "amp;">>, <<"&", "lt;">>, <<"&", "amp;", "amp;">>,
      <<"&", "amp;", "lt;">> }

\* t is a concatenation of Segments: no "amp;" or "lt;" stands outside an entity.
RECURSIVE isSegmented(_)
isSegmented(t) ==
    \/ t = <<>>
    \/ \E e \in Segments :
         /\ Len(e) <= Len(t)
         /\ SubSeq(t, 1, Len(e)) = e
         /\ isSegmented(SubSeq(t, Len(e) + 1, Len(t)))

\* C12 (as stated) -- for every text made only of plain text and single- or
\* double-encoded entities, a third decode gives what the second gave.
C12_ThirdDecodeChangesNothing ==
    (Len(dHist) = 4 /\ everyAmpStartsAnEntity(dHist[1])) => dHist[4] = dHist[3]

\* C12 (amended) -- the same, for texts in which every entity-name tail
\* ("amp;", "lt;") belongs to a single- or double-encoded entity.
C12_ThirdDecodeOfSegmentedText ==
    (Len(dHist) = 4 /\ isSegmented(dHist[1])) => dHist[4] = dHist[3]

\* A segmented text with a double-encoded entity has been decoded three times,
\* and the second decode did change it.
C12_Witness ==
    /\ Len(dHist) = 4
    /\ isSegmented(dHist[1])
    /\ \E i \in 1..(Len(dHist[1]) - 2) : SubSeq(dHist[1], i, i + 2) = <<"&", "amp;", "lt;">>
    /\ dHist[3] # dHist[2]
    /\ dHist[4] = dHist[3]

\* ------------------------------------------------------------------ claims: the block tree
stepIndexes(L) == {i \in DOMAIN L : L[i].type = "StepContent"}
ownersOf(L, j) == {i \in stepIndexes(L) : L[j].uuid \in Range(L[i].content_block_ids)}
nearestStepBefore(L, j) == Max({i \in stepIndexes(L) : i < j})
positionsOf(L, id) == {j \in DOMAIN L : L[j].uuid = id}

\* C18 -- in the block list of an article every step contributes first one
\* StepContent block of depth 0, then its body blocks of depth 1; every body
\* block (TextContent, ImageContentBlock) is in the child list of exactly one
\* StepContent block, the nearest one before it; a child list is in block-list
\* order and lists only blocks of the same list; the identifiers of a list are
\* pairwise distinct.
C18_TwoLevelTree ==
    /\ upc \in {"step", "match"} =>
          Cardinality(stepIndexes(contentBlocks)) = IF upc = "match" THEN uStep ELSE uStep - 1
    /\ \A L \in blockLists :
          /\ L # <<>> => L[1].type = "StepContent"
          /\ \A i, j \in DOMAIN L : i # j => L[i].uuid # L[j].uuid
          /\ \A i \in DOMAIN L :
                LET ids == L[i].content_block_ids
                IN  IF L[i].type = "StepContent"
                    THEN /\ L[i].depth = 0
                         /\ \A k \in DOMAIN ids : positionsOf(L, ids[k]) # {}
                         /\ \A k1, k2 \in DOMAIN ids :
                               k1 < k2 => \A p1 \in positionsOf(L, ids[k1]),
                                             p2 \in positionsOf(L, ids[k2]) : p1 < p2
                    ELSE /\ L[i].depth = 1
                         /\ L[i].type \in {"TextContent", "ImageContentBlock"}
                         /\ i > 1
                         /\ ownersOf(L, i) = {nearestStepBefore(L, i)}

\* A submitted list of two steps: the first has a text and an image block, the
\* second has children of its own, and every body block has its owner.
C18_Witness ==
    /\ Cardinality(stepIndexes(submitted)) = 2
    /\ \E i, j \in DOMAIN submitted :
         /\ submitted[i].type = "TextContent" /\ submitted[j].type = "ImageContentBlock"
         /\ ownersOf(submitted, i) = {1} /\ ownersOf(submitted, j) = {1}
    /\ \E j \in DOMAIN submitted :
         /\ submitted[j].type # "StepContent"
         /\ ownersOf(submitted, j) = {nearestStepBefore(submitted, j)}
         /\ nearestStepBefore(submitted, j) > 1

\* ------------------------------------------------------------------ claims: retry and waits
\* C19 -- the call returns once the server answers with another status than
\* 429 or the transport fails; a 429 never ends the call, however many have
\* come before: the call stays in its loop, and the wait it makes is the
\* retry_in of that response (60 when absent), not a function of the number
\* of attempts.
C19_ReturnsUnlessRateLimited ==
    /\ <>(rpc = "returned")
    /\ [][rStatuses' = Append(rStatuses, 429) =>
            /\ rpc' = "loop" /\ rResult' = "none"
            /\ rSlept' = rSlept \o << 1000 * effectiveRetryIn(rHints'[Len(rHints')]),
                                      RateLimitDelay >>]_vars
    /\ [][(rpc = "loop" /\ rpc' = "returned") =>
            \/ rStatuses' = rStatuses
            \/ rStatuses'[Len(rStatuses')] # 429]_vars

\* A call has returned successfully after Max429 answers 429.
C19_Witness ==
    rpc = "returned" /\ rResult = "ok" /\ count429 = Max429 /\ Len(rSent) = Max429 + 1

\* The waits that belong to the responses received.
RECURSIVE waitsFor(_, _)
waitsFor(statuses, hints) ==
    IF statuses = <<>> THEN <<>>
    ELSE IF Head(statuses) \in {200, 201}
         THEN <<RateLimitDelay>> \o waitsFor(Tail(statuses), hints)
    ELSE IF Head(statuses) = 429
         THEN << 1000 * (IF Head(hints) = 0 THEN DefaultRetryIn ELSE Head(hints)),
                 RateLimitDelay >> \o waitsFor(Tail(statuses), Tail(hints))
    ELSE waitsFor(Tail(statuses), hints)

\* C20 -- the sleeps made so far are exactly those of the responses received
\* so far: the inter-call delay after each 200/201, and after each 429 the
\* retry_in seconds of that response (60 when absent) and the delay; so every
\* later request, of this call or of the next, comes after the wait.
C20_EveryResponseIsFollowedByItsWait ==
    /\ Len(rHints) = count429
    /\ rSlept = waitsFor(rStatuses, rHints)
    /\ Len(rSent) \in {Len(rStatuses), Len(rStatuses) + 1}
    /\ (rpc = "loop" /\ rStatuses # <<>>) => lastStatus = 429

\* A call answered 429 without retry_in, 429 with retry_in 3, then 200.
C20_Witness ==
    /\ rpc = "returned" /\ rResult = "ok"
    /\ rHints = <<0, 3>>
    /\ rSlept = <<60000, 1250, 3000, 1250, 1250>>

\* ------------------------------------------------------------------ claims: writeOutput
\* The end-of-run summary: the lines from "Conversion Complete!" on.
summaryLines ==
    LET h == {i \in DOMAIN wLog : wLog[i].level = "HEADER"}
    IN  IF h = {} THEN <<>> ELSE SubSeq(wLog, Min(h), Len(wLog))

warnedNotFound(f) ==
    \E i \in DOMAIN wLog :
        wLog[i].level = "WARNING" /\ wLog[i].msg = "Source image not found for copy"
        /\ wLog[i].arg[1] = f

reportedInSummary(f) ==
    \/ \E i \in DOMAIN summaryLines : summaryLines[i].level = "WARNING" /\ f \in Range(summaryLines[i].arg)
    \/ \E i \in DOMAIN summaryLines : summaryLines[i].msg = "Images not found"

\* Every article of the manual has been written.
allArticlesWritten ==
    articleCount = SumSeq([c \in DOMAIN wManual |-> Len(wManual[c].articles)])

\* C17 -- when a referenced source image is not found, writeOutput warns,
\* goes on with the other images and articles and returns no error, and the
\* missing image is tallied and reported in the end-of-run summary.
C17_MissingImageIsTallied ==
    wpc = "done" =>
        \A f \in referencedImages(wManual) \ wSource :
            warnedNotFound(f) /\ allArticlesWritten /\ reportedInSummary(f)

\* ------------------------------------------------------------------ claims: the chapters
\* Whether the first top-level node is the manual's title node.
firstIsChildless == Len(manual) > 0 /\ (manual[1].nilKids \/ manual[1].kids = <<>>)

skippedNodes == IF firstIsChildless THEN 1 ELSE 0

\* C21 -- when flattenStructure has returned, the chapters are the top-level
\* nodes in source order, less the first one when it has no children: one
\* Chapter for every other node, with and without children.
C21_OneChapterPerNode ==
    fpc = "done" =>
        /\ Len(chapters) = Len(manual) - skippedNodes
        /\ \A c \in DOMAIN chapters :
              /\ chapters[c].id = manual[c + skippedNodes].id
              /\ chapters[c].title = manual[c + skippedNodes].title

\* A first node without children is skipped, a second one is a Chapter.
C21_Witness ==
    /\ fpc = "done" /\ Len(manual) = 2
    /\ manual[1].nilKids /\ manual[2].kids = <<>>
    /\ Len(chapters) = 1 /\ chapters[1].id = manual[2].id

\* The steps of an output article that carry the body and the images of node n.
stepsCarrying(article, n) ==
    { s \in DOMAIN article.steps :
        /\ article.steps[s].images = getNodeImages(n)
        /\ article.steps[s].content \in cleanedBodies(n) }

\* C26 -- when flattenStructure has returned, every article node and every
\* step node that has a body and images is carried by exactly one Step of its
\* output article, also an article node that has child step nodes.
C26_NothingIsLost ==
    fpc = "done" =>
        \A c \in DOMAIN chapters : \A a \in DOMAIN chapters[c].articles :
            LET node == sourceArticle(c, a)
                article == chapters[c].articles[a]
            IN  /\ node.loc => Cardinality(stepsCarrying(article, node)) = 1
                /\ \A k \in DOMAIN node.kids :
                      node.kids[k].loc => Cardinality(stepsCarrying(article, node.kids[k])) = 1

\* ------------------------------------------------------------------ claims: the chapter map
\* C24 -- every CreateArticle call carries the id the CreateManual response
\* lists at the index of the article's source chapter (100 + index), an id
\* that the response did return.
C24_ArticleGoesToItsChapter ==
    \A k \in DOMAIN calls :
        calls[k].kind = "article" =>
            /\ calls[k].ch <= calls[1].returned
            /\ calls[k].chapter = 100 + calls[k].ch

\* ------------------------------------------------------------------ claims: the segmenter
\* The state after the last step of the loop body: stepContent is the content
\* of the step just segmented, stepBlock the place of its StepContent block.
stepSegmented == upc = "step" /\ uStep > 1

\* The body blocks of the step just segmented, in list order.
bodyBlocks == SubSeq(contentBlocks, stepBlock + 1, Len(contentBlocks))

\* What a stretch of text between two matched spans has to give: one plain
\* TextContent block when something is left of it once the tags are taken
\* out and the white space trimmed, nothing otherwise.
gapSlots(text) ==
    IF \E i \in DOMAIN text : text[i].enc > 0 \/ text[i].k = "txt"
    THEN << [type |-> "TextContent", gap |-> TRUE, body |-> text, file |-> 0, mayDrop |-> FALSE] >>
    ELSE <<>>

\* What a matched span gives: an image may give no block (it may be skipped),
\* so may a styled-block wrapper; an embed always gives one.
spanSlot(content, span) ==
    LET t == content[span[1]]
    IN  IF t.k = "img"
        THEN [type |-> "ImageContentBlock", gap |-> FALSE, body |-> <<>>, file |-> t.n,
              mayDrop |-> TRUE]
        ELSE [type |-> "TextContent", gap |-> FALSE, body |-> <<>>, file |-> 0,
              mayDrop |-> (t.k = "styled")]

\* The spans of the content from left to right, with the gaps between them.
RECURSIVE slotsFrom(_, _, _)
slotsFrom(content, spans, last) ==
    IF spans = <<>> THEN gapSlots(SubSeq(content, last + 1, Len(content)))
    ELSE gapSlots(SubSeq(content, last + 1, spans[1][1] - 1))
         \o << spanSlot(content, spans[1]) >>
         \o slotsFrom(content, Tail(spans), spans[1][2])

fillsSlot(block, slot) ==
    /\ block.type = slot.type /\ block.file = slot.file /\ block.depth = 1
    /\ IF slot.gap THEN block.body = slot.body /\ block.style = ""
       ELSE slot.type = "TextContent" => block.style # ""

\* The blocks fill the slots in order, leaving out only slots that may be dropped.
RECURSIVE inSourceOrder(_, _)
inSourceOrder(blocks, slots) ==
    IF slots = <<>> THEN blocks = <<>>
    ELSE \/ /\ blocks # <<>> /\ fillsSlot(blocks[1], slots[1])
            /\ inSourceOrder(Tail(blocks), Tail(slots))
         \/ /\ slots[1].mayDrop
            /\ inSourceOrder(blocks, Tail(slots))

\* C22 -- the body blocks of a step stand in the order of their source spans:
\* they are the gaps and the matched spans from left to right, a gap giving one
\* plain TextContent block with the gap as body exactly when its text without
\* tags is not blank, the text after the last span included.
C22_BlocksInSourceOrder ==
    stepSegmented =>
        inSourceOrder(bodyBlocks, slotsFrom(stepContent, findAllIndex(stepContent, 1), 0))

\* Text, an uploaded image and text again gave three blocks.
C22_Witness ==
    /\ stepSegmented /\ stepContent = << T1, I1, Txt(2) >>
    /\ Len(bodyBlocks) = 3 /\ bodyBlocks[2].type = "ImageContentBlock"
    /\ bodyBlocks[3].body = << Txt(2) >>

\* The step of UploadToScreenSteps that handles the match whose first token is
\* of the given kind.
handlesSpan(kind) ==
    /\ upc = "match" /\ matchNo <= Len(indexes) /\ matchNo' = matchNo + 1
    /\ Live(stepContent[indexes[matchNo][1]], kind)

lastBlockAfter == contentBlocks'[Len(contentBlocks')]

\* C23 -- handling a styled-block wrapper appends, as the last block, a
\* TextContent block whose style is the wrapper's data-style and whose body is
\* the wrapper's inner HTML; handling an embed wrapper appends one whose style
\* is html-embed and whose body is the whole wrapper.
C23_WrapperGivesOneBlock ==
    [][/\ handlesSpan("styled") =>
            /\ Len(contentBlocks') > Len(contentBlocks)
            /\ lastBlockAfter.type = "TextContent"
            /\ lastBlockAfter.style = stepContent[indexes[matchNo][1]].a
            /\ lastBlockAfter.body =
                  SubSeq(stepContent, indexes[matchNo][1] + 1, indexes[matchNo][2] - 1)
       /\ handlesSpan("embed") =>
            /\ Len(contentBlocks') > Len(contentBlocks)
            /\ lastBlockAfter.type = "TextContent"
            /\ lastBlockAfter.style = "html-embed"
            /\ lastBlockAfter.body =
                  SubSeq(stepContent, indexes[matchNo][1], indexes[matchNo][2])]_vars

\* The image tags in the content of the step just segmented.
imageTags == { i \in DOMAIN stepContent : Live(stepContent[i], "img") }

imageBlocks == { i \in DOMAIN bodyBlocks : bodyBlocks[i].type = "ImageContentBlock" }

\* The entries of the skipped-image list made for the step just segmented.
skippedOfStep ==
    { i \in DOMAIN skippedImages :
        skippedImages[i].stepTitle = ssManual[uCh].articles[uArt].steps[uStep - 1].title }

\* C25 -- when a step has been segmented, each image tag of its content has
\* given one ImageContentBlock or one entry of the skipped-image list: there
\* are as many blocks and entries as tags, and every tag's file is among them.
C25_EveryImageIsAccountedFor ==
    stepSegmented =>
        /\ Cardinality(imageTags) = Cardinality(imageBlocks) + Cardinality(skippedOfStep)
        /\ \A i \in imageTags :
              \/ \E b \in imageBlocks : bodyBlocks[b].file = stepContent[i].n
              \/ \E k \in skippedOfStep : skippedImages[k].file = stepContent[i].n

\* The articles that were created and whose content was updated.
uploadedArticles ==
    { callKey(calls[i]) : i \in { k \in DOMAIN calls : calls[k].kind = "update" /\ calls[k].ok } }

\* C27 -- when the run has ended, the article count of the summary
\* (logger.processedArticles) is the number of articles whose create-article
\* call and content-update call both succeeded.
C27_CountIsUploadedArticles ==
    upc = "done" => logger.processedArticles = Cardinality(uploadedArticles)

\* ------------------------------------------------------------------ claims: wrapper nesting
\* How many styled-block wrappers are open at once, at most, in s: open is the
\* list of the <div> elements open at token i, the innermost last.
RECURSIVE wrapperDepth(_, _, _)
wrapperDepth(s, i, open) ==
    IF i > Len(s) THEN 0
    ELSE LET next == IF Live(s[i], "styled") \/ Live(s[i], "embed") THEN Append(open, s[i].k)
                     ELSE IF Live(s[i], "/div") /\ open # <<>>
                          THEN SubSeq(open, 1, Len(open) - 1)
                     ELSE open
             here == Cardinality({ m \in DOMAIN next : next[m] = "styled" })
         IN  Max({here, wrapperDepth(s, i + 1, next)})

\* C28 -- in the output of convertVLPParagraphStyles no styled-block wrapper
\* is opened inside another, so no paragraph is inside two.
C28_NoNestedWrappers ==
    cpc \in {"styled", "spanned", "done"} => wrapperDepth(cOut.styled, 1, <<>>) <= 1

\* ------------------------------------------------------------------ claims: progress counters
\* C29 -- throughout the flatten phase and the upload phase
\* 0 <= processedArticles <= currentArticle <= totalArticles and
\* 0 <= processedImages <= totalImages, and when flattenStructure returns
\* processedArticles = totalArticles.
C29_CountersInRange ==
    /\ 0 <= logger.processedArticles
    /\ logger.processedArticles <= logger.currentArticle
    /\ logger.currentArticle <= logger.totalArticles
    /\ 0 <= logger.processedImages
    /\ logger.processedImages <= logger.totalImages
    /\ fpc = "done" => logger.processedArticles = logger.totalArticles

\* An upload has ended in which one article could not be created and another
\* was processed, after a conversion.
C29_Witness ==
    /\ upc = "done"
    /\ 0 < logger.processedArticles
    /\ logger.processedArticles < logger.currentArticle
    /\ logger.currentArticle = logger.totalArticles

\* ------------------------------------------------------------------ claims: the output directory
\* C30 -- a run that has ended because the input path does not exist, or is
\* neither a directory nor a .zip file, has left an output directory that was
\* there before the run with its prior contents.
C30_AbortLeavesOutputDir ==
    (mpc = "exited" /\ inputStat \in {"absent", "other"} /\ outputBefore = "prior")
        => outputNow = "prior"

====
